---- MODULE Spec2Model ----
(***************************************************************************)
(* A model of the quantcrypt core: the DSA OID registry, the PrivateKey    *)
(* object with its PKCS#8 DER / PEM bridge, the ML-KEM adapter, the DSA    *)
(* adapters (EC, RSA, ML-DSA) and the CMS EnvelopedData builder.           *)
(*                                                                         *)
(* Each component has its own specification over the shared variables;     *)
(* the components not exercised by a specification stay idle.              *)
(***************************************************************************)
EXTENDS Integers, Sequences, FiniteSets, TLC

VARIABLES
    lookup,     \* registry: the last pair of get_oid lookups
    key,        \* PrivateKey under test (fields oid, key, is_composite) or NoKey
    der,        \* result of key.to_der()
    pem,        \* result of key.to_pem()
    key2,       \* result of PrivateKey::from_der / from_pem on der / pem
    der2,       \* result of key2.to_der()
    pem2,       \* result of key2.to_pem()
    kem,        \* one MlKemManager session
    dsa,        \* one DSA manager session
    builder,    \* the EnvelopedDataBuilder (or NoBuilder)
    cmsResult,  \* result of the last builder call
    envelope,   \* the ContentInfo produced by build (or NoEnvelope)
    opened,     \* result of decrypt_kemri on the envelope
    pkCall,     \* the last method call on the PrivateKey under test
    rerun,      \* the last randomized operation run again on the same inputs
    freed       \* the heap buffers of dropped keys, as they were left

vars == <<lookup, key, der, pem, key2, der2, pem2, kem, dsa, builder, cmsResult,
          envelope, opened, pkCall, rerun, freed>>

keyVars == <<key, der, pem, key2, der2, pem2, pkCall>>
cmsVars == <<builder, cmsResult, envelope, opened>>
auxVars == <<rerun, freed>>

(***************************************************************************)
(* Results: Ok(v) or Err(kind), kind a QuantCryptError variant.            *)
(***************************************************************************)
Ok(v) == [ok |-> TRUE, val |-> v, err |-> "none"]
Err(e) == [ok |-> FALSE, val |-> <<>>, err |-> e]
None == [ok |-> FALSE, val |-> <<>>, err |-> "not-called"]

\* F applied to the value of v, with v evaluated once.
Bind(v, F(_)) == CHOOSE r \in {F(x) : x \in {v}} : TRUE

(***************************************************************************)
(* Algorithm registry: DsaType and its OIDs (dsa/common/config/oids.rs).   *)
(* An OID is the sequence of its arcs.                                     *)
(***************************************************************************)
RsaPssTags == {"Rsa2048PssSHA256", "Rsa3072PssSHA512", "Rsa4096PssSha512"}
RsaPkcs15Sha512Tags == {"Rsa3072Pkcs15SHA512", "Rsa4096Pkcs15Sha512"}
EcdsaSha256Tags == {"EcdsaBrainpoolP256r1SHA256", "EcdsaP256SHA256"}
EcdsaSha384Tags == {"EcdsaP384SHA384", "EcdsaBrainpoolP384r1SHA384"}

SlhDsaTags ==
    <<"SlhDsaSha2_128s", "SlhDsaSha2_128f", "SlhDsaSha2_192s", "SlhDsaSha2_192f",
      "SlhDsaSha2_256s", "SlhDsaSha2_256f", "SlhDsaShake128s", "SlhDsaShake128f",
      "SlhDsaShake192s", "SlhDsaShake192f", "SlhDsaShake256s", "SlhDsaShake256f">>

DsaType ==
    RsaPssTags \cup {"Rsa2048Pkcs15SHA256"} \cup RsaPkcs15Sha512Tags
        \cup EcdsaSha256Tags \cup EcdsaSha384Tags \cup {"Ed25519", "Ed448"}
        \cup {SlhDsaTags[i] : i \in 1..Len(SlhDsaTags)}

SlhDsaIndex(t) == CHOOSE i \in 1..Len(SlhDsaTags) : SlhDsaTags[i] = t

DsaType_get_oid(t) ==
    CASE t \in RsaPssTags -> <<1, 2, 840, 113549, 1, 1, 10>>
      [] t = "Rsa2048Pkcs15SHA256" -> <<1, 2, 840, 113549, 1, 1, 11>>
      [] t \in RsaPkcs15Sha512Tags -> <<1, 2, 840, 113549, 1, 1, 13>>
      [] t \in EcdsaSha256Tags -> <<1, 2, 840, 10045, 4, 3, 2>>
      [] t \in EcdsaSha384Tags -> <<1, 2, 840, 10045, 4, 3, 3>>
      [] t = "Ed25519" -> <<1, 3, 101, 112>>
      [] t = "Ed448" -> <<1, 3, 101, 113>>
      [] OTHER -> <<2, 16, 840, 1, 101, 3, 4, 3, 19 + SlhDsaIndex(t)>>

NoLookup == [t1 |-> "none", t2 |-> "none", oid1 |-> <<>>, oid2 |-> <<>>]

\* Two tags of the enumeration are looked up.
RegistryLookup ==
    /\ \E t1 \in DsaType, t2 \in DsaType :
          lookup' = [t1 |-> t1, t2 |-> t2,
                     oid1 |-> DsaType_get_oid(t1), oid2 |-> DsaType_get_oid(t2)]
    /\ UNCHANGED <<keyVars, kem, dsa, cmsVars, auxVars>>

(***************************************************************************)
(* PrehashDsaType and its OIDs (dsa/common/config/oids.rs).  ML-DSA sits   *)
(* on the NIST arc, the composites on the 2.16.840.1.114027.80.8.1 arc.    *)
(***************************************************************************)
MlDsaTags == <<"MlDsa44", "MlDsa65", "MlDsa87">>

PureCompositeTags ==
    <<"MlDsa44Rsa2048Pss", "MlDsa44Rsa2048Pkcs15", "MlDsa44Ed25519",
      "MlDsa44EcdsaP256", "MlDsa65Rsa3072Pss", "MlDsa65Rsa3072Pkcs15",
      "MlDsa65Rsa4096Pss", "MlDsa65Rsa4096Pkcs15", "MlDsa65EcdsaP384",
      "MlDsa65EcdsaBrainpoolP256r1", "MlDsa65Ed25519", "MlDsa87EcdsaP384",
      "MlDsa87EcdsaBrainpoolP384r1", "MlDsa87Ed448">>

PureCompositeArc == <<21, 22, 23, 24, 26, 27, 34, 35, 28, 29, 30, 31, 32, 33>>

HashCompositeTags ==
    <<"MlDsa44Rsa2048PssSha256", "MlDsa44Rsa2048Pkcs15Sha256", "MlDsa44Ed25519Sha512",
      "MlDsa44EcdsaP256Sha256", "MlDsa65Rsa3072PssSha512", "MlDsa65Rsa3072Pkcs15Sha512",
      "MlDsa65Rsa4096PssSha512", "MlDsa65Rsa4096Pkcs15Sha512", "MlDsa65EcdsaP384Sha512",
      "MlDsa65EcdsaBrainpoolP256r1Sha512", "MlDsa65Ed25519Sha512",
      "MlDsa87EcdsaP384Sha512", "MlDsa87EcdsaBrainpoolP384r1Sha512",
      "MlDsa87Ed448Sha512">>

Range(s) == {s[i] : i \in 1..Len(s)}
IndexOf(s, x) == CHOOSE i \in 1..Len(s) : s[i] = x

PrehashDsaType == Range(MlDsaTags) \cup Range(PureCompositeTags) \cup Range(HashCompositeTags)

CompositeArc == <<2, 16, 840, 1, 114027, 80, 8, 1>>

PrehashDsaType_get_oid(t) ==
    CASE t \in Range(MlDsaTags) ->
            <<2, 16, 840, 1, 101, 3, 4, 3, 16 + IndexOf(MlDsaTags, t)>>
      [] t \in Range(PureCompositeTags) ->
            Append(CompositeArc, PureCompositeArc[IndexOf(PureCompositeTags, t)])
      [] OTHER ->
            Append(CompositeArc, 39 + IndexOf(HashCompositeTags, t))

\* Oid::get_oid of either enumeration.
Oid_get_oid(t) == IF t \in DsaType THEN DsaType_get_oid(t) ELSE PrehashDsaType_get_oid(t)

\* A PrehashDsaType tag and a tag of either enumeration are looked up.
PrehashLookup ==
    /\ \E t1 \in PrehashDsaType, t2 \in DsaType \cup PrehashDsaType :
          lookup' = [t1 |-> t1, t2 |-> t2, oid1 |-> Oid_get_oid(t1), oid2 |-> Oid_get_oid(t2)]
    /\ UNCHANGED <<keyVars, kem, dsa, cmsVars, auxVars>>

(***************************************************************************)
(* OID classification (asn1::asn_util, not part of the sources at hand):   *)
(* the recognized OIDs are those of the registry; the ML-KEM OIDs are the  *)
(* ones the CMS test data is named after.                                  *)
(***************************************************************************)
KemOid(i) == <<1, 3, 6, 1, 4, 1, 22554, 5, 6, i>>
MlKemTypes == <<"MlKem512", "MlKem768", "MlKem1024">>
CompositeKemOid == <<2, 16, 840, 1, 114027, 80, 5, 2, 24>>
KemOids == {KemOid(i) : i \in 1..Len(MlKemTypes)} \cup {CompositeKemOid}

DsaOids ==
    {DsaType_get_oid(t) : t \in DsaType} \cup {PrehashDsaType_get_oid(t) : t \in PrehashDsaType}

RsaEncryptionOid == <<1, 2, 840, 113549, 1, 1, 1>>

is_valid_oid(oid) == oid \in DsaOids \cup KemOids
is_dsa_oid(oid) == oid \in DsaOids
is_kem_oid(oid) == oid \in KemOids
is_composite_oid(oid) ==
    \/ oid \in {PrehashDsaType_get_oid(t) :
                    t \in Range(PureCompositeTags) \cup Range(HashCompositeTags)}
    \/ oid = CompositeKemOid

(***************************************************************************)
(* DER (the der / const_oid / pkcs8 crates as PrivateKey uses them).       *)
(* Bytes are 0..255; a DER value is a sequence of bytes.                   *)
(***************************************************************************)
TagInteger == 2
TagOctetString == 4
TagOid == 6
TagSequence == 48

\* Definite length, minimal form: short below 128, else 0x81 / 0x82.
DerLen(n) ==
    IF n < 128 THEN <<n>>
    ELSE IF n < 256 THEN <<129, n>>
    ELSE <<130, n \div 256, n % 256>>

TLV(tag, content0) ==
    Bind(content0, LAMBDA content : <<tag>> \o DerLen(Len(content)) \o content)

RECURSIVE Base128Hi(_)
Base128Hi(v) == IF v = 0 THEN <<>> ELSE Base128Hi(v \div 128) \o <<128 + (v % 128)>>
Base128(v) == Base128Hi(v \div 128) \o <<v % 128>>

RECURSIVE OidTail(_, _)
OidTail(arcs, i) ==
    IF i > Len(arcs) THEN <<>> ELSE Base128(arcs[i]) \o OidTail(arcs, i + 1)

\* The content octets of an OBJECT IDENTIFIER.
OidBody(arcs) == <<40 * arcs[1] + arcs[2]>> \o OidTail(arcs, 3)

RECURSIVE DecodeArcs(_, _, _, _)
DecodeArcs(b, i, acc, mid) ==
    IF i > Len(b) THEN (IF mid THEN <<-1>> ELSE <<>>)
    ELSE IF b[i] >= 128 THEN DecodeArcs(b, i + 1, acc * 128 + (b[i] - 128), TRUE)
    ELSE <<acc * 128 + b[i]>> \o DecodeArcs(b, i + 1, 0, FALSE)

\* The arcs of the content octets b, <<>> when b is no OID.
OidArcs(b) ==
    IF Len(b) = 0 \/ b[1] >= 128 THEN <<>>
    ELSE LET a == IF b[1] < 40 THEN 0 ELSE IF b[1] < 80 THEN 1 ELSE 2
             rest == DecodeArcs(b, 2, 0, FALSE)
         IN  IF -1 \in Range(rest) THEN <<>> ELSE <<a, b[1] - 40 * a>> \o rest

NoTLV == [ok |-> FALSE, tag |-> 0, content |-> <<>>, next |-> 0]

\* The TLV that starts at position pos of b and ends at or before position last.
ReadTLV(b, pos, last) ==
    IF pos + 1 > last THEN NoTLV
    ELSE LET l0 == b[pos + 1]
             hdr == IF l0 < 128 THEN 2 ELSE IF l0 = 129 THEN 3 ELSE IF l0 = 130 THEN 4 ELSE 0
         IN  IF hdr = 0 \/ pos + hdr - 1 > last THEN NoTLV
             ELSE LET n == IF hdr = 2 THEN l0
                           ELSE IF hdr = 3 THEN b[pos + 2]
                           ELSE 256 * b[pos + 2] + b[pos + 3]
                      minimal == (hdr = 3 => n >= 128) /\ (hdr = 4 => n >= 256)
                  IN  IF ~minimal \/ pos + hdr + n - 1 > last THEN NoTLV
                      ELSE [ok |-> TRUE, tag |-> b[pos],
                            content |-> SubSeq(b, pos + hdr, pos + hdr + n - 1),
                            next |-> pos + hdr + n]

\* pkcs8::PrivateKeyInfo { algorithm { oid, parameters: None }, private_key,
\* public_key: None }.to_der(): version 0, no attributes.
PrivateKeyInfo_to_der(oid, private_key) ==
    TLV(TagSequence,
        TLV(TagInteger, <<0>>)
            \o TLV(TagSequence, TLV(TagOid, OidBody(oid)))
            \o TLV(TagOctetString, private_key))

NoPrivateKeyInfo == [ok |-> FALSE, oid |-> <<>>, private_key |-> <<>>]

\* The fields that follow the version: AlgorithmIdentifier { oid, parameters
\* OPTIONAL }, the OCTET STRING, [0] attributes OPTIONAL, [1] publicKey OPTIONAL
\* (version 1 only), and nothing after them.
PrivateKeyInfo_fields(c, ver) ==
    Bind(ReadTLV(c, ver.next, Len(c)), LAMBDA alg :
        IF ~alg.ok \/ alg.tag # TagSequence THEN NoPrivateKeyInfo
        ELSE
        Bind(ReadTLV(alg.content, 1, Len(alg.content)), LAMBDA o :
        Bind(ReadTLV(c, alg.next, Len(c)), LAMBDA k :
            LET a == alg.content
                params == ReadTLV(a, o.next, Len(a))
                algOk == /\ o.ok /\ o.tag = TagOid /\ OidArcs(o.content) # <<>>
                         /\ \/ o.next = Len(a) + 1
                            \/ params.ok /\ params.next = Len(a) + 1
                attrs == ReadTLV(c, k.next, Len(c))
                afterAttrs == IF attrs.ok /\ attrs.tag = 160 THEN attrs.next ELSE k.next
                pub == ReadTLV(c, afterAttrs, Len(c))
                afterPub == IF pub.ok /\ pub.tag = 129 /\ ver.content = <<1>>
                            THEN pub.next ELSE afterAttrs
            IN  IF algOk /\ k.ok /\ k.tag = TagOctetString /\ afterPub = Len(c) + 1
                THEN [ok |-> TRUE, oid |-> OidArcs(o.content), private_key |-> k.content]
                ELSE NoPrivateKeyInfo)))

\* pkcs8::PrivateKeyInfo::from_der: one SEQUENCE { version, ... } and no byte
\* after it.
PrivateKeyInfo_from_der(b0) ==
    Bind(b0, LAMBDA b :
    Bind(ReadTLV(b, 1, Len(b)), LAMBDA outer :
        IF ~outer.ok \/ outer.tag # TagSequence \/ outer.next # Len(b) + 1
        THEN NoPrivateKeyInfo
        ELSE
        Bind(ReadTLV(outer.content, 1, Len(outer.content)), LAMBDA ver :
            IF ~ver.ok \/ ver.tag # TagInteger \/ ver.content \notin {<<0>>, <<1>>}
            THEN NoPrivateKeyInfo
            ELSE PrivateKeyInfo_fields(outer.content, ver))))

(***************************************************************************)
(* PEM (the pem crate).  A text is a sequence of symbols: the 64 base64    *)
(* digits 0..63, the padding character, the line feed, and one symbol for  *)
(* each "-----BEGIN label-----" and "-----END label-----" line.            *)
(***************************************************************************)
Pad == 64
LF == 65
LabelPrivateKey == 1
LabelPublicKey == 2
Labels == {LabelPrivateKey, LabelPublicKey}
BeginLine(label) == 100 + label
EndLine(label) == 200 + label
IsBegin(x) == \E l \in Labels : x = BeginLine(l)
IsEnd(x) == \E l \in Labels : x = EndLine(l)
LineWidth == 64

Base64Digit(b, j) ==
    LET n == Len(b)
        q == (j - 1) \div 4
        r == (j - 1) % 4
        b0 == b[3 * q + 1]
        b1 == IF 3 * q + 2 <= n THEN b[3 * q + 2] ELSE 0
        b2 == IF 3 * q + 3 <= n THEN b[3 * q + 3] ELSE 0
    IN  CASE r = 0 -> b0 \div 4
          [] r = 1 -> (b0 % 4) * 16 + b1 \div 16
          [] r = 2 -> IF 3 * q + 2 > n THEN Pad ELSE (b1 % 16) * 4 + b2 \div 64
          [] OTHER -> IF 3 * q + 3 > n THEN Pad ELSE b2 % 64

Base64Encode(b0) ==
    Bind(b0, LAMBDA b : [j \in 1..(4 * ((Len(b) + 2) \div 3)) |-> Base64Digit(b, j)] \o <<>>)

Base64Byte(s, i) ==
    LET D(j) == IF s[j] = Pad THEN 0 ELSE s[j]
        q == (i - 1) \div 3
        r == (i - 1) % 3
    IN  CASE r = 0 -> D(4 * q + 1) * 4 + D(4 * q + 2) \div 16
          [] r = 1 -> (D(4 * q + 2) % 16) * 16 + D(4 * q + 3) \div 4
          [] OTHER -> (D(4 * q + 3) % 4) * 64 + D(4 * q + 4)

\* Strict decoding: whole groups, padding only at the very end, canonical
\* trailing bits.
Base64Decode(s0) ==
    Bind(s0, LAMBDA s :
        LET m == Len(s)
            pads == IF m >= 2 /\ s[m] = Pad /\ s[m - 1] = Pad THEN 2
                    ELSE IF m >= 1 /\ s[m] = Pad THEN 1 ELSE 0
            wellFormed ==
                /\ m % 4 = 0
                /\ \A j \in 1..m : s[j] \in 0..63 \/ (s[j] = Pad /\ j > m - pads)
                /\ pads = 2 => s[m - 2] % 16 = 0
                /\ pads = 1 => s[m - 1] % 4 = 0
        IN  IF wellFormed
            THEN Ok([i \in 1..(3 * (m \div 4) - pads) |-> Base64Byte(s, i)] \o <<>>)
            ELSE Err("InvalidData"))

WrapAt(s, m, j) ==
    LET total == m + (m + LineWidth - 1) \div LineWidth
        q == (j - 1) \div (LineWidth + 1)
        r == (j - 1) % (LineWidth + 1)
    IN  IF r = LineWidth \/ j = total THEN LF ELSE s[LineWidth * q + r + 1]

\* Lines of LineWidth characters, each one ended by a line feed.
WrapLines(s0) ==
    Bind(s0, LAMBDA s :
        Bind(Len(s), LAMBDA m :
            [j \in 1..(m + (m + LineWidth - 1) \div LineWidth) |-> WrapAt(s, m, j)] \o <<>>))

\* pem::encode_config with LineEnding::LF.
pem_encode(label, contents) ==
    Bind(WrapLines(Base64Encode(contents)), LAMBDA body :
        <<BeginLine(label), LF>> \o body \o <<EndLine(label), LF>>)

NotLF(x) == x # LF

Least(S) == CHOOSE x \in S : \A y \in S : x <= y

\* pem::parse: the first BEGIN line, the data up to the END line, labels equal.
pem_parse(text0) ==
    Bind(text0, LAMBDA text :
    Bind({i \in 1..Len(text) : IsBegin(text[i])}, LAMBDA begins :
        IF begins = {} THEN Err("MalformedFraming")
        ELSE
        Bind(Least(begins), LAMBDA i :
        Bind({j \in (i + 1)..Len(text) : IsEnd(text[j])}, LAMBDA ends :
            IF ends = {} THEN Err("MalformedFraming")
            ELSE
            Bind(Least(ends), LAMBDA j :
                IF text[j] - EndLine(0) # text[i] - BeginLine(0) THEN Err("MismatchedTags")
                ELSE
                Bind(Base64Decode(SelectSeq(SubSeq(text, i + 1, j - 1), NotLF)), LAMBDA data :
                    IF ~data.ok THEN data
                    ELSE Ok([tag |-> text[i] - BeginLine(0), contents |-> data.val])))))))

(***************************************************************************)
(* PrivateKey (asn1/private_key.rs).                                       *)
(***************************************************************************)
MkKey(oid, bytes, composite) ==
    [oid |-> oid, key |-> bytes, is_composite |-> composite, present |-> TRUE]

PrivateKey_new(oid, bytes) ==
    IF ~is_valid_oid(oid) THEN Err("InvalidPrivateKey")
    ELSE Ok(MkKey(oid, bytes, is_composite_oid(oid)))

\* A to_der that stores the key bytes without their last byte.
PrivateKey_to_der_truncating(k) ==
    Ok(PrivateKeyInfo_to_der(k.oid, SubSeq(k.key, 1, Len(k.key) - 1)))

PrivateKey_to_der(k) == Ok(PrivateKeyInfo_to_der(k.oid, k.key))

\* A to_pem that labels the block "PUBLIC KEY".
PrivateKey_to_pem_public_label(k) ==
    Bind(PrivateKey_to_der(k), LAMBDA d :
        IF ~d.ok THEN Err("InvalidPrivateKey")
        ELSE Ok(pem_encode(LabelPublicKey, d.val)))

PrivateKey_to_pem(k) ==
    Bind(PrivateKey_to_der(k), LAMBDA d :
        IF ~d.ok THEN Err("InvalidPrivateKey")
        ELSE Ok(pem_encode(LabelPrivateKey, d.val)))

\* A from_der that skips the registry check.
PrivateKey_from_der_unchecked(b) ==
    Bind(PrivateKeyInfo_from_der(b), LAMBDA info :
        IF ~info.ok THEN Err("InvalidPrivateKey")
        ELSE Ok(MkKey(info.oid, info.private_key, is_composite_oid(info.oid))))

PrivateKey_from_der(b) ==
    Bind(PrivateKeyInfo_from_der(b), LAMBDA info :
        IF ~info.ok THEN Err("InvalidPrivateKey")
        ELSE IF ~is_valid_oid(info.oid) THEN Err("InvalidPrivateKey")
        ELSE Ok(MkKey(info.oid, info.private_key, is_composite_oid(info.oid))))

\* A from_pem that accepts a block of any label.
PrivateKey_from_pem_any_label(text) ==
    Bind(pem_parse(text), LAMBDA p :
        IF ~p.ok THEN Err("InvalidPrivateKey")
        ELSE PrivateKey_from_der(p.val.contents))

PrivateKey_from_pem(text) ==
    Bind(pem_parse(text), LAMBDA p :
        IF ~p.ok THEN Err("InvalidPrivateKey")
        ELSE IF p.val.tag # LabelPrivateKey THEN Err("InvalidPrivateKey")
        ELSE PrivateKey_from_der(p.val.contents))

(***************************************************************************)
(* CompositePrivateKey (asn1::composite_private_key, not part of the       *)
(* sources at hand): a composite OID and two OneAsymmetricKey values, PQ   *)
(* first; its DER is the SEQUENCE of the two.                              *)
(***************************************************************************)
CompositePrivateKey_to_der(c) ==
    TLV(TagSequence,
        PrivateKeyInfo_to_der(c.pq.oid, c.pq.key) \o PrivateKeyInfo_to_der(c.trad.oid, c.trad.key))

PrivateKey_from_composite(c) == Ok(MkKey(c.oid, CompositePrivateKey_to_der(c), TRUE))

(***************************************************************************)
(* The keys the key specification starts from.                             *)
(***************************************************************************)
MaxKeyLen == 258
NumPatterns == 2

\* Key lengths around the places where the encodings change shape: the empty
\* key, the 64-character PEM line, the one-, two- and three-byte DER lengths.
KeyLens ==
    {n \in 0..MaxKeyLen :
        \/ n <= 3
        \/ n \in 28..31
        \/ n \in 107..111
        \/ n \in 126..129
        \/ n \in 234..238
        \/ n >= MaxKeyLen - 3}

KeyBytes(n, s) == [i \in 1..n |-> (i * (36 + s) + 255 * s) % 256]

KeySamples == {KeyBytes(n, s) : n \in KeyLens, s \in 1..NumPatterns}

KeyOidSamples ==
    { DsaType_get_oid("Ed25519"), DsaType_get_oid("Rsa2048PssSHA256"),
      DsaType_get_oid("EcdsaP256SHA256"), DsaType_get_oid("SlhDsaShake256f"),
      PrehashDsaType_get_oid("MlDsa44"), PrehashDsaType_get_oid("MlDsa65Rsa4096Pss"),
      PrehashDsaType_get_oid("MlDsa44EcdsaP256Sha256"), KemOid(1), CompositeKemOid,
      RsaEncryptionOid }

CompositeSamples ==
    { [oid |-> PrehashDsaType_get_oid(t),
       pq |-> [oid |-> PrehashDsaType_get_oid("MlDsa44"), key |-> KeyBytes(n, 1)],
       trad |-> [oid |-> DsaType_get_oid("EcdsaP256SHA256"), key |-> KeyBytes(m, 2)]] :
        t \in {"MlDsa44EcdsaP256", "MlDsa44EcdsaP256Sha256"},
        n \in {0, MaxKeyLen \div 2}, m \in {1, 32} }

NoKey2 == [via |-> "none", res |-> None]

\* PrivateKey::new succeeds and yields the key under test.
KeyNew ==
    /\ ~key.present
    /\ \E oid \in KeyOidSamples, bytes \in KeySamples :
          LET r == PrivateKey_new(oid, bytes)
          IN  r.ok /\ key' = r.val
    /\ UNCHANGED <<lookup, der, pem, key2, der2, pem2, kem, dsa, cmsVars, pkCall, auxVars>>

\* PrivateKey::from_composite yields the key under test.
KeyFromComposite ==
    /\ ~key.present
    /\ \E c \in CompositeSamples :
          LET r == PrivateKey_from_composite(c)
          IN  r.ok /\ key' = r.val
    /\ UNCHANGED <<lookup, der, pem, key2, der2, pem2, kem, dsa, cmsVars, pkCall, auxVars>>

KeyToDer ==
    /\ key.present /\ der = None
    /\ der' = PrivateKey_to_der(key)
    /\ UNCHANGED <<lookup, key, pem, key2, der2, pem2, kem, dsa, cmsVars, pkCall, auxVars>>

KeyToPem ==
    /\ key.present /\ pem = None
    /\ pem' = PrivateKey_to_pem(key)
    /\ UNCHANGED <<lookup, key, der, key2, der2, pem2, kem, dsa, cmsVars, pkCall, auxVars>>

\* PrivateKey::from_der on the bytes to_der returned.
KeyFromDer ==
    /\ der.ok /\ key2 = NoKey2
    /\ key2' = [via |-> "der", res |-> PrivateKey_from_der(der.val)]
    /\ UNCHANGED <<lookup, key, der, pem, der2, pem2, kem, dsa, cmsVars, pkCall, auxVars>>

\* PrivateKey::from_pem on the text to_pem returned.
KeyFromPem ==
    /\ pem.ok /\ key2 = NoKey2
    /\ key2' = [via |-> "pem", res |-> PrivateKey_from_pem(pem.val)]
    /\ UNCHANGED <<lookup, key, der, pem, der2, pem2, kem, dsa, cmsVars, pkCall, auxVars>>

Key2ToDer ==
    /\ key2.res.ok /\ der2 = None
    /\ der2' = PrivateKey_to_der(key2.res.val)
    /\ UNCHANGED <<lookup, key, der, pem, key2, pem2, kem, dsa, cmsVars, pkCall, auxVars>>

Key2ToPem ==
    /\ key2.res.ok /\ pem2 = None
    /\ pem2' = PrivateKey_to_pem(key2.res.val)
    /\ UNCHANGED <<lookup, key, der, pem, key2, der2, kem, dsa, cmsVars, pkCall, auxVars>>

(***************************************************************************)
(* The PrivateKey interface under arbitrary input: every constructor on    *)
(* well-formed and malformed arguments, then the methods of the key that   *)
(* was constructed.                                                        *)
(***************************************************************************)
EcPublicKeyOid == <<1, 2, 840, 10045, 2, 1>>

\* The OIDs handed to the constructors: recognized ones and two that the
\* registry does not hold.
LoadOids == KeyOidSamples \cup {EcPublicKeyOid}

LoadLens == {0, 5, 40}

LoadKeys == {KeyBytes(n, 1) : n \in LoadLens}

\* A character that is no base64 digit.
BadChar == 66

\* The DER inputs built from one PrivateKeyInfo.
DerClasses == {"good", "truncated", "trailing", "wrong-tag", "empty"}

DerInput(class, oid, bytes) ==
    Bind(PrivateKeyInfo_to_der(oid, bytes), LAMBDA d :
        CASE class = "good" -> d
          [] class = "truncated" -> SubSeq(d, 1, Len(d) - 1)
          [] class = "trailing" -> d \o <<0>>
          [] class = "wrong-tag" -> [d EXCEPT ![1] = TagOctetString]
          [] OTHER -> <<>>)

\* The PEM inputs built from one PrivateKeyInfo: "good" and "bad-der" are
\* well-formed blocks labelled PRIVATE KEY, the others are not.
PemBlockClasses == {"good", "bad-der"}
PemBrokenClasses ==
    {"empty", "no-headers", "bad-base64", "wrong-label", "mismatched-labels", "no-end"}
PemClasses == PemBlockClasses \cup PemBrokenClasses

PemInput(class, oid, bytes) ==
    Bind(PrivateKeyInfo_to_der(oid, bytes), LAMBDA d :
    Bind(pem_encode(LabelPrivateKey, d), LAMBDA p :
        CASE class = "good" -> p
          [] class = "bad-der" -> pem_encode(LabelPrivateKey, SubSeq(d, 1, Len(d) - 1))
          [] class = "empty" -> <<>>
          [] class = "no-headers" -> WrapLines(Base64Encode(d))
          [] class = "bad-base64" -> [p EXCEPT ![3] = BadChar]
          [] class = "wrong-label" -> pem_encode(LabelPublicKey, d)
          [] class = "mismatched-labels" ->
                [p EXCEPT ![Len(p) - 1] = EndLine(LabelPublicKey)]
          [] OTHER -> SubSeq(p, 1, Len(p) - 2)))

\* CompositePrivateKey values: the OID is the string the caller gave to
\* CompositePrivateKey::from_der, which from_composite copies.
CompositeLoadOids ==
    { PrehashDsaType_get_oid("MlDsa44EcdsaP256"),
      PrehashDsaType_get_oid("MlDsa44EcdsaP256Sha256"),
      CompositeKemOid, PrehashDsaType_get_oid("MlDsa44"), KemOid(1), RsaEncryptionOid }

CompositeLoadSamples ==
    { [oid |-> o,
       pq |-> [oid |-> PrehashDsaType_get_oid("MlDsa44"), key |-> KeyBytes(n, 1)],
       trad |-> [oid |-> DsaType_get_oid("EcdsaP256SHA256"), key |-> KeyBytes(5, 2)]] :
        o \in CompositeLoadOids, n \in LoadLens }

Constructed(via, class, oid, r) == [via |-> via, class |-> class, oid |-> oid, res |-> r]

KeyOf(r) == IF r.ok THEN r.val ELSE key

PkNew ==
    /\ key2 = NoKey2
    /\ \E oid \in LoadOids, bytes \in LoadKeys :
          LET r == PrivateKey_new(oid, bytes)
          IN  /\ key2' = Constructed("new", "good", oid, r)
              /\ key' = KeyOf(r)
    /\ UNCHANGED <<lookup, der, pem, der2, pem2, kem, dsa, cmsVars, pkCall, auxVars>>

PkFromDer ==
    /\ key2 = NoKey2
    /\ \E class \in DerClasses, oid \in LoadOids, bytes \in LoadKeys :
          LET r == PrivateKey_from_der(DerInput(class, oid, bytes))
          IN  /\ key2' = Constructed("der", class, oid, r)
              /\ key' = KeyOf(r)
    /\ UNCHANGED <<lookup, der, pem, der2, pem2, kem, dsa, cmsVars, pkCall, auxVars>>

PkFromPem ==
    /\ key2 = NoKey2
    /\ \E class \in PemClasses, oid \in LoadOids, bytes \in LoadKeys :
          LET r == PrivateKey_from_pem(PemInput(class, oid, bytes))
          IN  /\ key2' = Constructed("pem", class, oid, r)
              /\ key' = KeyOf(r)
    /\ UNCHANGED <<lookup, der, pem, der2, pem2, kem, dsa, cmsVars, pkCall, auxVars>>

PkFromComposite ==
    /\ key2 = NoKey2
    /\ \E c \in CompositeLoadSamples :
          LET r == PrivateKey_from_composite(c)
          IN  /\ key2' = Constructed("composite", "good", c.oid, r)
              /\ key' = KeyOf(r)
    /\ UNCHANGED <<lookup, der, pem, der2, pem2, kem, dsa, cmsVars, pkCall, auxVars>>

(***************************************************************************)
(* PrivateKey::sign and the DsaManager it dispatches to (dsa::dsa_manager, *)
(* not part of the sources at hand).  The signing primitive is opaque: it  *)
(* is known by the tag, the key bytes and the data it was invoked with,    *)
(* and it may succeed or fail.                                             *)
(***************************************************************************)
DsaTagsOfOid(oid) ==
    {t \in DsaType : DsaType_get_oid(t) = oid}
        \cup {t \in PrehashDsaType : PrehashDsaType_get_oid(t) = oid}

\* The tags DsaManager::new_from_oid may resolve the OID to.
DsaManagerChoices(oid) == IF DsaTagsOfOid(oid) = {} THEN {"none"} ELSE DsaTagsOfOid(oid)

DsaManager_new_from_oid(oid, t) ==
    IF t \in DsaTagsOfOid(oid) THEN Ok([dsa_type |-> t]) ELSE Err("UnsupportedOperation")

PrimitiveOutcomes == {"ok", "InvalidPrivateKey", "SignatureFailed"}

DsaManager_sign(m, sk, data, outcome) ==
    [invoked |-> <<[dsa_type |-> m.dsa_type, sk |-> sk, data |-> data]>>,
     res |-> IF outcome = "ok"
             THEN Ok([signer |-> m.dsa_type, sk |-> sk, data |-> data])
             ELSE Err(outcome)]

\* A sign that always hands the call to the ML-DSA-44 primitive.
PrivateKey_sign_fixed_primitive(k, data, t, outcome) ==
    IF ~is_dsa_oid(k.oid) THEN [invoked |-> <<>>, res |-> Err("UnsupportedOperation")]
    ELSE DsaManager_sign([dsa_type |-> "MlDsa44"], k.key, data, outcome)

PrivateKey_sign(k, data, t, outcome) ==
    IF ~is_dsa_oid(k.oid) THEN [invoked |-> <<>>, res |-> Err("UnsupportedOperation")]
    ELSE LET m == DsaManager_new_from_oid(k.oid, t)
         IN  IF ~m.ok THEN [invoked |-> <<>>, res |-> m]
             ELSE DsaManager_sign(m.val, k.key, data, outcome)

SignData == {<<>>, <<1, 2, 3>>}

PkOps == {"get_oid", "get_key", "is_composite", "to_der", "to_pem", "sign"}

NoPkCall == [op |-> "none", data |-> <<>>, invoked |-> <<>>, res |-> None]

PkCall(op, data, invoked, r) == [op |-> op, data |-> data, invoked |-> invoked, res |-> r]

\* A receiver whose key bytes are gone once to_der has run.
PrivateKey_receiver_moved(k, op) == IF op = "to_der" THEN [k EXCEPT !.key = <<>>] ELSE k

\* The receiver after a method call: every method borrows `&self`, and no
\* field has interior mutability.
PrivateKey_receiver(k, op) == k

PkGetOid ==
    /\ key.present
    /\ pkCall' = PkCall("get_oid", <<>>, <<>>, Ok(key.oid))
    /\ key' = PrivateKey_receiver(key, "get_oid")
    /\ UNCHANGED <<lookup, der, pem, key2, der2, pem2, kem, dsa, cmsVars, auxVars>>

PkGetKey ==
    /\ key.present
    /\ pkCall' = PkCall("get_key", <<>>, <<>>, Ok(key.key))
    /\ key' = PrivateKey_receiver(key, "get_key")
    /\ UNCHANGED <<lookup, der, pem, key2, der2, pem2, kem, dsa, cmsVars, auxVars>>

PkIsComposite ==
    /\ key.present
    /\ pkCall' = PkCall("is_composite", <<>>, <<>>, Ok(key.is_composite))
    /\ key' = PrivateKey_receiver(key, "is_composite")
    /\ UNCHANGED <<lookup, der, pem, key2, der2, pem2, kem, dsa, cmsVars, auxVars>>

PkToDer ==
    /\ key.present
    /\ pkCall' = PkCall("to_der", <<>>, <<>>, PrivateKey_to_der(key))
    /\ key' = PrivateKey_receiver(key, "to_der")
    /\ UNCHANGED <<lookup, der, pem, key2, der2, pem2, kem, dsa, cmsVars, auxVars>>

PkToPem ==
    /\ key.present
    /\ pkCall' = PkCall("to_pem", <<>>, <<>>, PrivateKey_to_pem(key))
    /\ key' = PrivateKey_receiver(key, "to_pem")
    /\ UNCHANGED <<lookup, der, pem, key2, der2, pem2, kem, dsa, cmsVars, auxVars>>

PkSign ==
    /\ key.present
    /\ \E data \in SignData, t \in DsaManagerChoices(key.oid), outcome \in PrimitiveOutcomes :
          LET s == PrivateKey_sign(key, data, t, outcome)
          IN  pkCall' = PkCall("sign", data, s.invoked, s.res)
    /\ key' = PrivateKey_receiver(key, "sign")
    /\ UNCHANGED <<lookup, der, pem, key2, der2, pem2, kem, dsa, cmsVars, auxVars>>

(***************************************************************************)
(* Byte strings of the cryptographic primitives.  The primitives are       *)
(* opaque: a byte string is its length and what it stands for.             *)
(***************************************************************************)
NoKem == [stage |-> "idle"]
NoDsa == [stage |-> "idle"]
NoBuilder == [present |-> FALSE]
NoEnvelope == [present |-> FALSE]

Bytes(n, what) == [len |-> n, body |-> what]
NoBytes == Bytes(0, [kind |-> "none"])

(***************************************************************************)
(* ML-KEM (kem/ml_kem.rs over the ml_kem crate).                           *)
(***************************************************************************)
KemType == Range(MlKemTypes) \cup {"MlKem768BrainpoolP256r1"}

\* Encoded sizes of the three parameter sets: encapsulation key,
\* decapsulation key, ciphertext.
EkLen(t) == CASE t = "MlKem512" -> 800 [] t = "MlKem768" -> 1184 [] OTHER -> 1568
DkLen(t) == CASE t = "MlKem512" -> 1632 [] t = "MlKem768" -> 2400 [] OTHER -> 3168
CtLen(t) == CASE t = "MlKem512" -> 768 [] t = "MlKem768" -> 1088 [] OTHER -> 1568
SharedKeyLen == 32

\* KemCore::generate(rng): (dk, ek), the pair the randomness seed determines.
MlKem_generate(t, seed) ==
    <<[kind |-> "dk", set |-> t, id |-> seed], [kind |-> "ek", set |-> t, id |-> seed]>>

\* EncapsulationKey::encapsulate(rng): (ct, ss).
MlKem_encapsulate(ek, r) ==
    <<Bytes(CtLen(ek.set), [kind |-> "ct", set |-> ek.set, id |-> ek.id, r |-> r]),
      Bytes(SharedKeyLen, [kind |-> "ss", set |-> ek.set, id |-> ek.id, r |-> r])>>

\* DecapsulationKey::decapsulate(ct): the shared key of ct when ct was made for
\* this key, the implicit-rejection key otherwise.
MlKem_decapsulate(dk, ct) ==
    IF ct.body.kind = "ct" /\ ct.body.set = dk.set /\ ct.body.id = dk.id
    THEN Bytes(SharedKeyLen, [kind |-> "ss", set |-> dk.set, id |-> dk.id, r |-> ct.body.r])
    ELSE Bytes(SharedKeyLen, [kind |-> "rejected", set |-> dk.set, id |-> dk.id, r |-> 0])

\* key_gen_ml!: (ek bytes, dk bytes), that is (pk, sk).
key_gen_ml(t, seed) ==
    LET g == MlKem_generate(t, seed)
    IN  <<Bytes(EkLen(t), g[2]), Bytes(DkLen(t), g[1])>>

get_encapsulation_key_obj(t, pk) ==
    IF pk.len # EkLen(t) THEN Err("InvalidPublicKey") ELSE Ok(pk.body)

get_decapsulation_key_obj(t, sk) ==
    IF sk.len # DkLen(t) THEN Err("InvalidPrivateKey") ELSE Ok(sk.body)

\* An encapsulate_ml! that keeps the primitive's order (ct, ss).
encapsulate_ml_unswapped(t, pk, r) ==
    LET ek == get_encapsulation_key_obj(t, pk)
    IN  IF ~ek.ok THEN ek ELSE Ok(MlKem_encapsulate(ek.val, r))

\* encapsulate_ml!: Ok((ss, ct)).
encapsulate_ml(t, pk, r) ==
    LET ek == get_encapsulation_key_obj(t, pk)
    IN  IF ~ek.ok THEN ek
        ELSE LET e == MlKem_encapsulate(ek.val, r)
             IN  Ok(<<e[2], e[1]>>)

decapsulate(t, sk, ct) ==
    IF ct.len # CtLen(t) THEN Err("InvalidCiphertext")
    ELSE LET dk == get_decapsulation_key_obj(t, sk)
         IN  IF ~dk.ok THEN dk ELSE Ok(MlKem_decapsulate(dk.val, ct))

IsMlKem(t) == t \in Range(MlKemTypes)

Panic == [ok |-> FALSE, val |-> <<>>, err |-> "panic"]

MlKemManager_key_gen_with_rng(t, seed) ==
    IF IsMlKem(t) THEN Ok(key_gen_ml(t, seed)) ELSE Panic

MlKemManager_encap(t, pk, r) ==
    IF IsMlKem(t) THEN encapsulate_ml(t, pk, r) ELSE Panic

MlKemManager_decap(t, sk, ct) ==
    IF IsMlKem(t) THEN decapsulate(t, sk, ct) ELSE Err("NotImplemented")

NumSeeds == 3
NumRand == 3

\* MlKemManager::new
KemNew ==
    /\ kem = NoKem
    /\ \E t \in KemType :
          kem' = [stage |-> "new", kem_type |-> t, seed |-> 0, keys |-> None,
                  pk_used |-> NoBytes, enc |-> None, sk_used |-> NoBytes, dec |-> None]
    /\ UNCHANGED <<lookup, keyVars, dsa, cmsVars, auxVars>>

\* key_gen: key_gen_with_rng on a freshly seeded generator
KemKeyGen ==
    /\ kem.stage = "new"
    /\ \E seed \in 1..NumSeeds :
          kem' = [kem EXCEPT !.stage = "keyed", !.seed = seed,
                             !.keys = MlKemManager_key_gen_with_rng(kem.kem_type, seed)]
    /\ UNCHANGED <<lookup, keyVars, dsa, cmsVars, auxVars>>

\* encap(pk): the caller passes the public key key_gen returned, or the
\* public key of a pair of another parameter set
KemEncap ==
    /\ kem.stage = "keyed"
    /\ \E t \in Range(MlKemTypes), r \in 1..NumRand :
          LET pk == key_gen_ml(t, kem.seed)[1]
          IN  kem' = [kem EXCEPT !.stage = "encapsulated", !.pk_used = pk,
                                 !.enc = MlKemManager_encap(kem.kem_type, pk, r)]
    /\ UNCHANGED <<lookup, keyVars, dsa, cmsVars, auxVars>>

\* decap(sk, ct) with the ciphertext encap returned and a secret key of the
\* ciphertext's parameter set: the one key_gen returned, or another one
KemDecap ==
    /\ kem.stage = "encapsulated" /\ kem.enc.ok
    /\ \E seed \in 1..NumSeeds :
          LET sk == key_gen_ml(kem.pk_used.body.set, seed)[2]
          IN  kem' = [kem EXCEPT !.stage = "decapsulated", !.sk_used = sk,
                                 !.dec = MlKemManager_decap(kem.kem_type, sk, kem.enc.val[2])]
    /\ UNCHANGED <<lookup, keyVars, dsa, cmsVars, auxVars>>

(***************************************************************************)
(* Signature primitives.  A key pair is what the key-generation randomness *)
(* determines; a signature is the algorithm parameters, key and message it *)
(* was made for, and `flip`, the position of a bit changed after signing   *)
(* (0: none).  A signature verifies under the parameters, key and message  *)
(* it was made for and, with overwhelming probability, no others.          *)
(***************************************************************************)
MsgBits == 2
SigBits == 2
Msgs == [1..MsgBits -> {0, 1}]
FlipBit(m, i) == [m EXCEPT ![i] = 1 - m[i]]

KeyPair(alg, pk_len, sk_len, seed) ==
    <<Bytes(pk_len, [kind |-> "pk", alg |-> alg, id |-> seed]),
      Bytes(sk_len, [kind |-> "sk", alg |-> alg, id |-> seed])>>

Signature(n, params, skbody, msg, r) ==
    Bytes(n, [kind |-> "sig", params |-> params, alg |-> skbody.alg, id |-> skbody.id,
              msg |-> msg, r |-> r, flip |-> 0])

Verifies(params, pkbody, msg, sig) ==
    /\ sig.body.kind = "sig" /\ sig.body.flip = 0
    /\ sig.body.params = params /\ sig.body.alg = pkbody.alg
    /\ sig.body.id = pkbody.id /\ sig.body.msg = msg

IsKey(b, kind, alg, n) == b.len = n /\ b.body.kind = kind /\ b.body.alg = alg

(***************************************************************************)
(* ML-DSA (dsa/ml_dsa.rs over the fips204 crate).                          *)
(***************************************************************************)
MlDsaPkLen(t) == CASE t = "MlDsa44" -> 1312 [] t = "MlDsa65" -> 1952 [] OTHER -> 2592
MlDsaSkLen(t) == CASE t = "MlDsa44" -> 2560 [] t = "MlDsa65" -> 4032 [] OTHER -> 4896
MlDsaSigLen(t) == CASE t = "MlDsa44" -> 2420 [] t = "MlDsa65" -> 3309 [] OTHER -> 4627

EmptyCtx == <<>>
MlDsaParams(ctx) == [scheme |-> "ml-dsa", ctx |-> ctx]

\* A verify_ml! that answers a failed verification with an error.
verify_ml_strict(t, pk, msg, signature) ==
    IF pk.len # MlDsaPkLen(t) THEN Err("InvalidPublicKey")
    ELSE IF signature.len # MlDsaSigLen(t) THEN Err("InvalidSignature")
    ELSE IF ~IsKey(pk, "pk", t, MlDsaPkLen(t)) THEN Err("InvalidPublicKey")
    ELSE IF Verifies(MlDsaParams(EmptyCtx), pk.body, msg, signature)
         THEN Ok(TRUE) ELSE Err("InvalidSignature")

sign_ml(t, sk, msg, r) ==
    IF sk.len # MlDsaSkLen(t) THEN Err("InvalidPrivateKey")
    ELSE IF ~IsKey(sk, "sk", t, MlDsaSkLen(t)) THEN Err("SignatureFailed")
    ELSE Ok(Signature(MlDsaSigLen(t), MlDsaParams(EmptyCtx), sk.body, msg, r))

verify_ml(t, pk, msg, signature) ==
    IF pk.len # MlDsaPkLen(t) THEN Err("InvalidPublicKey")
    ELSE IF signature.len # MlDsaSigLen(t) THEN Err("InvalidSignature")
    ELSE IF ~IsKey(pk, "pk", t, MlDsaPkLen(t)) THEN Err("InvalidPublicKey")
    ELSE Ok(Verifies(MlDsaParams(EmptyCtx), pk.body, msg, signature))

IsMlDsa(t) == t \in Range(MlDsaTags)

MlDsaManager_new(t) == Ok([dsa_type |-> t])

MlDsaManager_key_gen_with_rng(m, seed) ==
    IF IsMlDsa(m.dsa_type)
    THEN Ok(KeyPair(m.dsa_type, MlDsaPkLen(m.dsa_type), MlDsaSkLen(m.dsa_type), seed))
    ELSE Err("NotImplemented")

MlDsaManager_sign(m, sk, msg, ctx, r) ==
    IF IsMlDsa(m.dsa_type) THEN sign_ml(m.dsa_type, sk, msg, r) ELSE Err("NotImplemented")

\* A verify that checks the signature under the context it is given.
MlDsaManager_verify_with_ctx(m, pk, msg, signature, ctx) ==
    IF ~IsMlDsa(m.dsa_type) THEN Err("NotImplemented")
    ELSE IF ctx = "None" THEN verify_ml(m.dsa_type, pk, msg, signature)
    ELSE Ok(Verifies(MlDsaParams(ctx), pk.body, msg, signature))

MlDsaManager_verify(m, pk, msg, signature, ctx) ==
    IF IsMlDsa(m.dsa_type) THEN verify_ml(m.dsa_type, pk, msg, signature)
    ELSE Err("NotImplemented")

\* vec![0]
StubSignature == Bytes(1, [kind |-> "zero"])

MlDsaManager_sign_prehash(m, sk, msg, ctx, ph) == Ok(StubSignature)

MlDsaManager_verify_prehash(m, pk, msg, signature, ctx, ph) == Ok(FALSE)

(***************************************************************************)
(* RSA (dsa/rsa_dsa.rs over openssl).                                      *)
(***************************************************************************)
RsaDsaTags ==
    <<"Rsa2048Pkcs15Sha256", "Rsa2048PssSha256", "Rsa3072Pkcs15Sha256",
      "Rsa3072PssSha256", "Rsa4096Pkcs15Sha384", "Rsa4096PssSha384">>

RsaBits(t) ==
    CASE t \in {"Rsa2048Pkcs15Sha256", "Rsa2048PssSha256"} -> 2048
      [] t \in {"Rsa3072Pkcs15Sha256", "Rsa3072PssSha256"} -> 3072
      [] OTHER -> 4096

RsaDsaManager_get_hash_and_padding(m) ==
    CASE m.dsa_type \in {"Rsa2048Pkcs15Sha256", "Rsa3072Pkcs15Sha256"} -> <<"sha256", "PKCS1">>
      [] m.dsa_type \in {"Rsa2048PssSha256", "Rsa3072PssSha256"} -> <<"sha256", "PKCS1_PSS">>
      [] m.dsa_type = "Rsa4096Pkcs15Sha384" -> <<"sha384", "PKCS1">>
      [] m.dsa_type = "Rsa4096PssSha384" -> <<"sha384", "PKCS1_PSS">>
      [] OTHER -> <<"panic", "panic">>

\* What the signer or verifier is set to: hash, padding and, for PSS, the
\* MGF1 hash and the salt length.
RsaParams(hp) ==
    [scheme |-> "rsa", hash |-> hp[1], padding |-> hp[2],
     mgf1 |-> IF hp[2] = "PKCS1_PSS" THEN hp[1] ELSE "default",
     saltlen |-> IF hp[2] = "PKCS1_PSS" THEN "DIGEST_LENGTH" ELSE "default"]

\* PKCS#1 DER sizes of the public and the private key of a modulus size.
RsaPkLen(bits) == (bits \div 8) + 14
RsaSkLen(bits) == 9 * (bits \div 16) + 40

RsaDsaManager_new(t) == Ok([dsa_type |-> t])

RsaDsaManager_key_gen_with_rng(m, seed) ==
    IF m.dsa_type \in Range(RsaDsaTags)
    THEN LET bits == RsaBits(m.dsa_type)
         IN  Ok(KeyPair(bits, RsaPkLen(bits), RsaSkLen(bits), seed))
    ELSE Err("NotImplemented")

IsRsaKey(b, kind) ==
    /\ b.body.kind = kind /\ b.body.alg \in {2048, 3072, 4096}
    /\ b.len = IF kind = "pk" THEN RsaPkLen(b.body.alg) ELSE RsaSkLen(b.body.alg)

\* PSS salts its signatures; PKCS#1 v1.5 is deterministic.
RsaDsaManager_sign(m, sk, msg, r) ==
    IF ~IsRsaKey(sk, "sk") THEN Err("SerializationFailed")
    ELSE LET hp == RsaDsaManager_get_hash_and_padding(m)
         IN  IF hp[1] = "panic" THEN Panic
             ELSE Ok(Signature(sk.body.alg \div 8, RsaParams(hp), sk.body, msg,
                               IF hp[2] = "PKCS1_PSS" THEN r ELSE 0))

\* A verify that never tells the verifier which padding to use.
RsaDsaManager_verify_default_padding(m, pk, msg, signature) ==
    IF ~IsRsaKey(pk, "pk") THEN Err("SerializationFailed")
    ELSE LET hp == RsaDsaManager_get_hash_and_padding(m)
         IN  IF hp[1] = "panic" THEN Panic
             ELSE Ok(/\ signature.len = pk.body.alg \div 8
                     /\ Verifies(RsaParams(<<hp[1], "PKCS1">>), pk.body, msg, signature))

\* Verifier::verify answers a signature of the wrong size with false.
RsaDsaManager_verify(m, pk, msg, signature) ==
    IF ~IsRsaKey(pk, "pk") THEN Err("SerializationFailed")
    ELSE LET hp == RsaDsaManager_get_hash_and_padding(m)
         IN  IF hp[1] = "panic" THEN Panic
             ELSE Ok(/\ signature.len = pk.body.alg \div 8
                     /\ Verifies(RsaParams(hp), pk.body, msg, signature))

(***************************************************************************)
(* ECDSA and EdDSA (dsa/ec_dsa.rs; the openssl helpers it calls are not    *)
(* part of the sources at hand and follow the adapter contract: a          *)
(* malformed key or signature is an error, a well-formed wrong signature   *)
(* is false).                                                              *)
(***************************************************************************)
EcDsaTags ==
    <<"EcdsaP256SHA256", "EcdsaBrainpoolP256r1SHA256", "Ed25519", "Ed448",
      "EcdsaP384SHA384", "EcdsaBrainpoolP384r1SHA384">>

\* A new that sets neither the curve nor the key type.
EcDsaManager_new_unset(t) ==
    IF t \in Range(EcDsaTags)
    THEN Ok([dsa_type |-> t, ec_based_nid |-> "None", pk_based_id |-> "None", digest |-> "None"])
    ELSE Err("NotImplemented")

EcDsaManager_new(t) ==
    CASE t = "EcdsaP256SHA256" ->
            Ok([dsa_type |-> t, ec_based_nid |-> "X9_62_PRIME256V1", pk_based_id |-> "None",
                digest |-> "sha256"])
      [] t = "EcdsaBrainpoolP256r1SHA256" ->
            Ok([dsa_type |-> t, ec_based_nid |-> "BRAINPOOL_P256R1", pk_based_id |-> "None",
                digest |-> "sha256"])
      [] t = "Ed25519" ->
            Ok([dsa_type |-> t, ec_based_nid |-> "None", pk_based_id |-> "ED25519",
                digest |-> "None"])
      [] t = "Ed448" ->
            Ok([dsa_type |-> t, ec_based_nid |-> "None", pk_based_id |-> "ED448",
                digest |-> "None"])
      [] t = "EcdsaP384SHA384" ->
            Ok([dsa_type |-> t, ec_based_nid |-> "SECP384R1", pk_based_id |-> "None",
                digest |-> "sha384"])
      [] t = "EcdsaBrainpoolP384r1SHA384" ->
            Ok([dsa_type |-> t, ec_based_nid |-> "BRAINPOOL_P384R1", pk_based_id |-> "None",
                digest |-> "sha384"])
      [] OTHER -> Err("NotImplemented")

\* Sizes of the encoded public key, private key and signature of a curve.
EcPkLen(c) ==
    CASE c \in {"X9_62_PRIME256V1", "BRAINPOOL_P256R1"} -> 65
      [] c \in {"SECP384R1", "BRAINPOOL_P384R1"} -> 97
      [] c = "ED25519" -> 32
      [] OTHER -> 57
EcSkLen(c) ==
    CASE c \in {"X9_62_PRIME256V1", "BRAINPOOL_P256R1"} -> 32
      [] c \in {"SECP384R1", "BRAINPOOL_P384R1"} -> 48
      [] c = "ED25519" -> 32
      [] OTHER -> 57
EcSigLen(c) ==
    CASE c \in {"X9_62_PRIME256V1", "BRAINPOOL_P256R1"} -> 72
      [] c \in {"SECP384R1", "BRAINPOOL_P384R1"} -> 104
      [] c = "ED25519" -> 64
      [] OTHER -> 114

get_key_pair_ec_based(nid, seed) == Ok(KeyPair(nid, EcPkLen(nid), EcSkLen(nid), seed))
get_key_pair_pkey_based(id, seed) == Ok(KeyPair(id, EcPkLen(id), EcSkLen(id), seed))

EcdsaParams(digest) == [scheme |-> "ecdsa", hash |-> digest]
EddsaParams == [scheme |-> "eddsa", hash |-> "None"]

sign_ec_based(nid, sk, msg, digest, r) ==
    IF ~IsKey(sk, "sk", nid, EcSkLen(nid)) THEN Err("openssl")
    ELSE Ok(Signature(EcSigLen(nid), EcdsaParams(digest), sk.body, msg, r))

sign_pkey_based(id, sk, msg) ==
    IF ~IsKey(sk, "sk", id, EcSkLen(id)) THEN Err("openssl")
    ELSE Ok(Signature(EcSigLen(id), EddsaParams, sk.body, msg, 0))

verify_ec_based(nid, pk, msg, signature, digest) ==
    IF ~IsKey(pk, "pk", nid, EcPkLen(nid)) \/ signature.len # EcSigLen(nid)
    THEN Err("openssl")
    ELSE Ok(Verifies(EcdsaParams(digest), pk.body, msg, signature))

verify_pkey_based(id, pk, msg, signature) ==
    IF ~IsKey(pk, "pk", id, EcPkLen(id)) \/ signature.len # EcSigLen(id)
    THEN Err("openssl")
    ELSE Ok(Verifies(EddsaParams, pk.body, msg, signature))

MapErr(res, e) == IF res.ok THEN res ELSE Err(e)

EcDsaManager_key_gen(m, seed) ==
    IF m.ec_based_nid # "None"
    THEN MapErr(get_key_pair_ec_based(m.ec_based_nid, seed), "KeyPairGenerationFailed")
    ELSE IF m.pk_based_id # "None"
    THEN MapErr(get_key_pair_pkey_based(m.pk_based_id, seed), "KeyPairGenerationFailed")
    ELSE Err("NotImplemented")

\* self.digest.unwrap() panics on a digest that is None.
EcDsaManager_sign(m, sk, msg, r) ==
    IF m.ec_based_nid # "None" /\ m.digest = "None" THEN Panic
    ELSE IF m.ec_based_nid # "None"
    THEN MapErr(sign_ec_based(m.ec_based_nid, sk, msg, m.digest, r), "SignatureFailed")
    ELSE IF m.pk_based_id # "None"
    THEN MapErr(sign_pkey_based(m.pk_based_id, sk, msg), "SignatureFailed")
    ELSE Err("NotImplemented")

EcDsaManager_verify(m, pk, msg, signature) ==
    IF m.ec_based_nid # "None" /\ m.digest = "None" THEN Panic
    ELSE IF m.ec_based_nid # "None"
    THEN MapErr(verify_ec_based(m.ec_based_nid, pk, msg, signature, m.digest),
                "SignatureVerificationFailed")
    ELSE IF m.pk_based_id # "None"
    THEN MapErr(verify_pkey_based(m.pk_based_id, pk, msg, signature),
                "SignatureVerificationFailed")
    ELSE Err("NotImplemented")

\* get_pk_from_sk_ec_based, get_pk_from_sk_pkey_based: the public key of the
\* pair the secret key belongs to.
get_pk_from_sk(c, sk) ==
    IF ~IsKey(sk, "sk", c, EcSkLen(c)) THEN Err("openssl")
    ELSE Ok(Bytes(EcPkLen(c), [kind |-> "pk", alg |-> c, id |-> sk.body.id]))

EcDsaManager_get_public_key(m, sk) ==
    IF m.ec_based_nid # "None"
    THEN MapErr(get_pk_from_sk(m.ec_based_nid, sk), "InvalidPrivateKey")
    ELSE IF m.pk_based_id # "None"
    THEN MapErr(get_pk_from_sk(m.pk_based_id, sk), "InvalidPrivateKey")
    ELSE Err("NotImplemented")

(***************************************************************************)
(* A signing session: one manager, one key pair, one signature, one        *)
(* verification.                                                           *)
(***************************************************************************)
Families == {"ec", "rsa", "ml"}

\* The tags a manager of a family is constructed with: the ones it
\* implements and one it does not.
FamilyTags(f) ==
    CASE f = "ec" -> Range(EcDsaTags) \cup {"SlhDsaSha2_128s"}
      [] f = "rsa" -> Range(RsaDsaTags) \cup {"Ed25519"}
      [] OTHER -> Range(MlDsaTags) \cup {"MlDsa44Ed25519"}

Ctxs == {"None", "ctx"}
Phs == {"sha256", "sha512"}

Dsa_new(f, t) ==
    CASE f = "ec" -> EcDsaManager_new(t)
      [] f = "rsa" -> RsaDsaManager_new(t)
      [] OTHER -> MlDsaManager_new(t)

Dsa_key_gen(f, m, seed) ==
    CASE f = "ec" -> EcDsaManager_key_gen(m, seed)
      [] f = "rsa" -> RsaDsaManager_key_gen_with_rng(m, seed)
      [] OTHER -> MlDsaManager_key_gen_with_rng(m, seed)

Dsa_sign(f, m, sk, msg, ctx, r) ==
    CASE f = "ec" -> EcDsaManager_sign(m, sk, msg, r)
      [] f = "rsa" -> RsaDsaManager_sign(m, sk, msg, r)
      [] OTHER -> MlDsaManager_sign(m, sk, msg, ctx, r)

Dsa_verify(f, m, pk, msg, signature, ctx) ==
    CASE f = "ec" -> EcDsaManager_verify(m, pk, msg, signature)
      [] f = "rsa" -> RsaDsaManager_verify(m, pk, msg, signature)
      [] OTHER -> MlDsaManager_verify(m, pk, msg, signature, ctx)

Tampers == {"none", "msg", "sig", "truncated"}

DsaNew ==
    /\ dsa = NoDsa
    /\ \E f \in Families : \E t \in FamilyTags(f) :
          dsa' = [stage |-> "new", family |-> f, tag |-> t, mgr |-> Dsa_new(f, t),
                  keys |-> None, msg |-> <<>>, ctx |-> "None", ph |-> "None", sig |-> None,
                  tamper |-> "none", vmsg |-> <<>>, vsig |-> NoBytes, ver |-> None]
    /\ UNCHANGED <<lookup, keyVars, kem, cmsVars, auxVars>>

DsaKeyGen ==
    /\ dsa.stage = "new" /\ dsa.mgr.ok
    /\ \E seed \in 1..NumSeeds :
          dsa' = [dsa EXCEPT !.stage = "keyed",
                             !.keys = Dsa_key_gen(dsa.family, dsa.mgr.val, seed)]
    /\ UNCHANGED <<lookup, keyVars, kem, cmsVars, auxVars>>

\* get_public_key(sk) of the EC manager with the secret key key_gen returned
DsaGetPublicKey ==
    /\ dsa.stage = "keyed" /\ dsa.keys.ok /\ dsa.family = "ec"
    /\ rerun' = [op |-> "get_public_key",
                 res |-> EcDsaManager_get_public_key(dsa.mgr.val, dsa.keys.val[2])]
    /\ UNCHANGED <<lookup, keyVars, kem, dsa, cmsVars, freed>>

\* sign(sk, msg) with the secret key key_gen returned
DsaSign ==
    /\ dsa.stage = "keyed" /\ dsa.keys.ok
    /\ \E msg \in Msgs, r \in 1..NumRand :
       \E ctx \in IF dsa.family = "ml" THEN Ctxs ELSE {"None"} :
          dsa' = [dsa EXCEPT !.stage = "signed", !.msg = msg, !.ctx = ctx,
                             !.sig = Dsa_sign(dsa.family, dsa.mgr.val, dsa.keys.val[2],
                                              msg, ctx, r)]
    /\ UNCHANGED <<lookup, keyVars, kem, cmsVars, auxVars>>

\* verify(pk, msg, sig) with the public key key_gen returned and the message
\* and signature as they are, or with one bit of one of them flipped, or with
\* the signature cut short
DsaVerify ==
    /\ dsa.stage = "signed" /\ dsa.sig.ok
    /\ \E tamper \in Tampers, i \in 1..MsgBits, j \in 1..SigBits :
          LET vmsg == IF tamper = "msg" THEN FlipBit(dsa.msg, i) ELSE dsa.msg
              s    == dsa.sig.val
              vsig == CASE tamper = "sig" -> [s EXCEPT !.body.flip = j]
                        [] tamper = "truncated" -> [s EXCEPT !.len = s.len - 1]
                        [] OTHER -> s
          IN  dsa' = [dsa EXCEPT !.stage = "verified", !.tamper = tamper,
                                 !.vmsg = vmsg, !.vsig = vsig,
                                 !.ver = Dsa_verify(dsa.family, dsa.mgr.val, dsa.keys.val[1],
                                                    vmsg, vsig, dsa.ctx)]
    /\ UNCHANGED <<lookup, keyVars, kem, cmsVars, auxVars>>

\* The ML-DSA manager once more, under a context of the caller's choice:
\* sign(sk, msg, ctx2) with the randomness of the signature at hand, and
\* verify(pk, msg, sig, ctx2) of that signature
DsaOtherCtx ==
    /\ dsa.stage = "signed" /\ dsa.sig.ok /\ dsa.family = "ml"
    /\ \E ctx2 \in Ctxs :
          rerun' = [op |-> "other_ctx",
                    res |-> [ctx |-> ctx2,
                             sig |-> MlDsaManager_sign(dsa.mgr.val, dsa.keys.val[2], dsa.msg,
                                                       ctx2, dsa.sig.val.body.r),
                             ver |-> MlDsaManager_verify(dsa.mgr.val, dsa.keys.val[1], dsa.msg,
                                                         dsa.sig.val, ctx2)]]
    /\ UNCHANGED <<lookup, keyVars, kem, dsa, cmsVars, freed>>

\* sign_prehash(sk, msg, ctx, ph) of the ML-DSA manager
DsaSignPrehash ==
    /\ dsa.stage = "keyed" /\ dsa.keys.ok /\ dsa.family = "ml"
    /\ \E msg \in Msgs, ctx \in Ctxs, ph \in Phs :
          dsa' = [dsa EXCEPT !.stage = "prehash-signed", !.msg = msg, !.ctx = ctx, !.ph = ph,
                             !.sig = MlDsaManager_sign_prehash(dsa.mgr.val, dsa.keys.val[2],
                                                               msg, ctx, ph)]
    /\ UNCHANGED <<lookup, keyVars, kem, cmsVars, auxVars>>

\* verify_prehash(pk, msg, sig, ctx, ph) on what sign_prehash was given and
\* returned
DsaVerifyPrehash ==
    /\ dsa.stage = "prehash-signed" /\ dsa.sig.ok
    /\ dsa' = [dsa EXCEPT !.stage = "prehash-verified", !.vmsg = dsa.msg,
                          !.vsig = dsa.sig.val,
                          !.ver = MlDsaManager_verify_prehash(dsa.mgr.val, dsa.keys.val[1],
                                      dsa.msg, dsa.sig.val, dsa.ctx, dsa.ph)]
    /\ UNCHANGED <<lookup, keyVars, kem, cmsVars, auxVars>>

(***************************************************************************)
(* Error kinds.  The flat taxonomy names the kinds in its own words; the   *)
(* code's variant UnsupportedOperation is the one it reports for an        *)
(* algorithm it does not support.                                          *)
(***************************************************************************)
ErrorKind(e) ==
    CASE e = "InvalidPublicKey" -> "invalid-public-key"
      [] e = "InvalidPrivateKey" -> "invalid-private-key"
      [] e = "InvalidSignature" -> "invalid-signature"
      [] e = "InvalidCertificate" -> "invalid-certificate"
      [] e = "InvalidCiphertext" -> "invalid-ciphertext"
      [] e = "InvalidAttribute" -> "invalid-attribute"
      [] e = "UnsupportedOperation" -> "unsupported-algorithm"
      [] e = "KeyPairGenerationFailed" -> "keygen-failed"
      [] e = "SignatureFailed" -> "signature-failed"
      [] e = "SignatureVerificationFailed" -> "verification-failed"
      [] e = "EncapFailed" -> "encap-failed"
      [] e = "DecapFailed" -> "decap-failed"
      [] e = "DecryptionFailed" -> "decryption-failed"
      [] e = "SerializationFailed" -> "serialization-failed"
      [] e = "NoMatchingRecipient" -> "no-matching-recipient"
      [] e = "NotImplemented" -> "not-implemented"
      [] OTHER -> "outside-the-taxonomy"

(***************************************************************************)
(* KEM manager (kem::kem_manager, not part of the sources at hand): the    *)
(* manager of a KEM OID; ML-KEM goes to MlKemManager, the composite to a   *)
(* KEM with the same contract.                                             *)
(***************************************************************************)
KemTypeOfOid(oid) ==
    IF oid = CompositeKemOid THEN "MlKem768BrainpoolP256r1"
    ELSE MlKemTypes[CHOOSE i \in 1..Len(MlKemTypes) : KemOid(i) = oid]

KemManager_new_from_oid(oid) ==
    IF oid \in KemOids THEN Ok(KemTypeOfOid(oid)) ELSE Err("UnsupportedOperation")

CompositeExtra == 65

KemManager_key_gen(t, seed) ==
    IF IsMlKem(t) THEN key_gen_ml(t, seed)
    ELSE <<Bytes(EkLen("MlKem768") + CompositeExtra, [kind |-> "ek", set |-> t, id |-> seed]),
           Bytes(DkLen("MlKem768") + CompositeExtra, [kind |-> "dk", set |-> t, id |-> seed])>>

KemManager_encap(t, pk, r) ==
    IF IsMlKem(t) THEN MlKemManager_encap(t, pk, r)
    ELSE IF pk.len # EkLen("MlKem768") + CompositeExtra \/ pk.body.set # t
    THEN Err("InvalidPublicKey")
    ELSE Ok(<<Bytes(SharedKeyLen, [kind |-> "ss", set |-> t, id |-> pk.body.id, r |-> r]),
              Bytes(CtLen("MlKem768") + CompositeExtra,
                    [kind |-> "ct", set |-> t, id |-> pk.body.id, r |-> r])>>)

KemManager_decap(t, sk, ct) ==
    IF IsMlKem(t) THEN MlKemManager_decap(t, sk, ct)
    ELSE IF ct.len # CtLen("MlKem768") + CompositeExtra THEN Err("InvalidCiphertext")
    ELSE IF sk.len # DkLen("MlKem768") + CompositeExtra \/ sk.body.set # t
    THEN Err("InvalidPrivateKey")
    ELSE IF ct.body.kind = "ct" /\ ct.body.set = t /\ ct.body.id = sk.body.id
    THEN Ok(Bytes(SharedKeyLen, [kind |-> "ss", set |-> t, id |-> sk.body.id, r |-> ct.body.r]))
    ELSE Err("DecapFailed")

(***************************************************************************)
(* Certificates (crate::Certificate, not part of the sources at hand): an  *)
(* issuer and serial number, which identify the certificate, the           *)
(* keyEncipherment bit, and the public key with its algorithm OID.         *)
(***************************************************************************)
SignerOid == PrehashDsaType_get_oid("MlDsa44Rsa2048PssSha256")

\* The certificates at hand: a trust anchor, two end entities with KEM keys of
\* different algorithms, an end entity whose KEM key is for key agreement
\* only, and an end entity with keyEncipherment on a signature key.
Certs ==
    {[subject |-> "ta", issuer |-> "ta", serial |-> 1, key_encipherment |-> FALSE,
      public_key_oid |-> SignerOid, key |-> 1],
     [subject |-> "ee1", issuer |-> "ta", serial |-> 2, key_encipherment |-> TRUE,
      public_key_oid |-> KemOid(1), key |-> 1],
     [subject |-> "ee2", issuer |-> "ta2", serial |-> 2, key_encipherment |-> TRUE,
      public_key_oid |-> CompositeKemOid, key |-> 2],
     [subject |-> "ka", issuer |-> "ta", serial |-> 3, key_encipherment |-> FALSE,
      public_key_oid |-> KemOid(2), key |-> 3],
     [subject |-> "ds", issuer |-> "ta2", serial |-> 1, key_encipherment |-> TRUE,
      public_key_oid |-> SignerOid, key |-> 2]}

CertNamed(n) == CHOOSE c \in Certs : c.subject = n
KemCerts == {c \in Certs : c.public_key_oid \in KemOids}

Certificate_is_key_encipherment_enabled(c) == c.key_encipherment
Certificate_get_public_key_oid(c) == c.public_key_oid
RecipientIdentifier(c) == <<c.issuer, c.serial>>

\* The key pair of a certificate with a KEM key.
CertKeyPair(c) == KemManager_key_gen(KemTypeOfOid(c.public_key_oid), c.key)
CertPublicKey(c) ==
    IF c \in KemCerts THEN CertKeyPair(c)[1]
    ELSE Bytes(MlDsaPkLen("MlDsa44"), [kind |-> "pk", alg |-> "MlDsa44", id |-> c.key])
CertPrivateKey(c) == CertKeyPair(c)[2]

(***************************************************************************)
(* Content encryption, key derivation and key wrap are opaque: a           *)
(* ciphertext is what was encrypted and under which key, and only that key *)
(* opens it.                                                               *)
(***************************************************************************)
CbcTypes == <<"Aes128CbcPad", "Aes192CbcPad", "Aes256CbcPad">>
ALLOWED_CAE_TYPES == Range(CbcTypes)
CeaType == ALLOWED_CAE_TYPES \cup {"Aes128Gcm", "Aes192Gcm", "Aes256Gcm"}
WRAP_TYPES == {"Aes128", "Aes256"}

\* id-ct-authEnvelopedData, the content type of AuthEnvelopedData.
ID_CT_AUTH_ENVELOPED_DATA == <<1, 2, 840, 113549, 1, 9, 16, 1, 23>>

ID_ENVELOPED_DATA == <<1, 2, 840, 113549, 1, 7, 3>>
ID_DATA == <<1, 2, 840, 113549, 1, 7, 1>>

CekLen(cea) == CASE cea = "Aes128Cbc" -> 16 [] cea = "Aes192Cbc" -> 24 [] OTHER -> 32

\* The i-th draw of the builder's random number generator.
Draw(seed, i) == [seed |-> seed, i |-> i]

cbc_encrypt(cea, cek, iv, plaintext) ==
    [alg |-> cea, key |-> cek, iv |-> iv, plaintext |-> plaintext]
cbc_decrypt(cea, cek, iv, c) ==
    IF c.alg = cea /\ c.key = cek /\ c.iv = iv THEN Ok(c.plaintext)
    ELSE Err("DecryptionFailed")

Kdf_derive(kdf, ss, wrap, ukm) ==
    [kdf |-> kdf, ss |-> ss, wrap |-> wrap, ukm |-> ukm]
Wrap_wrap(wrap, key_to_wrap, wrapping_key) ==
    [wrap |-> wrap, wrapped |-> key_to_wrap, under |-> wrapping_key]
Wrap_unwrap(wrap, wrapped_key, wrapping_key) ==
    IF wrapped_key.wrap = wrap /\ wrapped_key.under = wrapping_key
    THEN Ok(wrapped_key.wrapped) ELSE Err("DecryptionFailed")

(***************************************************************************)
(* KemRecipientInfoBuilder (cms::asn1::kemri_builder, not part of the      *)
(* sources at hand) and the recipient-info builders of the cms crate.      *)
(***************************************************************************)
KemRecipientInfoBuilder_new(cert, kem_manager, kdf_oid, wrap_oid, ukm) ==
    [kind |-> "kemri", cert |-> cert, kem |-> kem_manager, kdf |-> kdf_oid,
     wrap |-> wrap_oid, ukm |-> ukm]

\* encap to the certificate's key, derive the key-encryption key, wrap the
\* content-encryption key.
KemRecipientInfoBuilder_build(rb, cek, r) ==
    LET e == KemManager_encap(rb.kem, CertPublicKey(rb.cert), r)
    IN  IF ~e.ok THEN e
        ELSE Ok([kind |-> "kemri", rid |-> RecipientIdentifier(rb.cert),
                 kem |-> rb.kem, kemct |-> e.val[2], kdf |-> rb.kdf, ukm |-> rb.ukm,
                 wrap |-> rb.wrap,
                 encrypted_key |->
                     Wrap_wrap(rb.wrap, cek, Kdf_derive(rb.kdf, e.val[1], rb.wrap, rb.ukm))])

\* A recipient info of another kind: the content-encryption key under that
\* recipient's own key, or the error of a library builder that cannot build.
OtherRecipientInfo_build(rb, cek) ==
    IF ~rb.builds THEN Err("Builder")
    ELSE
    Ok([kind |-> rb.kind, rid |-> <<"other", 0>>, kem |-> "None", kemct |-> NoBytes,
        kdf |-> "None", ukm |-> "None", wrap |-> "None",
        encrypted_key |-> Wrap_wrap("None", cek, rb.kind)])

RecipientInfoBuilder_build(rb, cek, r) ==
    IF rb.kind = "kemri" THEN KemRecipientInfoBuilder_build(rb, cek, r)
    ELSE OtherRecipientInfo_build(rb, cek)

(***************************************************************************)
(* EnvelopedDataBuilder (cms/enveloped_data_builder.rs).  Each operation   *)
(* gives its result and the builder after it.                              *)
(***************************************************************************)
\* Option<Attributes>: None, or Some of a set of attributes.
NoAttributes == [some |-> FALSE, set |-> {}]
SomeAttributes(set) == [some |-> TRUE, set |-> set]

\* A new that takes any content-encryption algorithm.
EnvelopedDataBuilder_new_unchecked(plaintext, cae_type) ==
    Ok([present |-> TRUE, originator_info |-> "None", plaintext |-> plaintext,
        cae_type |-> cae_type, unprotected_attributes |-> NoAttributes,
        kemri_builders |-> <<>>, kek_builders |-> <<>>, ktri_builders |-> <<>>,
        kari_builders |-> <<>>, pwri_builders |-> <<>>, ori_builders |-> <<>>])

EnvelopedDataBuilder_new(plaintext, cae_type) ==
    IF cae_type \notin ALLOWED_CAE_TYPES THEN Err("UnsupportedOperation")
    ELSE Ok([present |-> TRUE, originator_info |-> "None", plaintext |-> plaintext,
             cae_type |-> cae_type, unprotected_attributes |-> NoAttributes,
             kemri_builders |-> <<>>, kek_builders |-> <<>>, ktri_builders |-> <<>>,
             kari_builders |-> <<>>, pwri_builders |-> <<>>, ori_builders |-> <<>>])

\* Attributes::insert (SetOfVec of the der crate): the set with the attribute
\* in it, or an error for an attribute the set has already or the library
\* cannot encode; a refused insert is taken to leave the set as it was.
Attributes_insert(set, attribute, encodable) ==
    IF attribute \in set \/ ~encodable THEN Err("SetOfVec") ELSE Ok(set \cup {attribute})

EnvelopedDataBuilder_attribute(b, attribute, encodable) ==
    IF b.unprotected_attributes.some
    THEN LET r == Attributes_insert(b.unprotected_attributes.set, attribute, encodable)
         IN  IF ~r.ok THEN [res |-> Err("InvalidAttribute"), builder |-> b]
             ELSE [res |-> Ok(<<>>),
                   builder |-> [b EXCEPT !.unprotected_attributes = SomeAttributes(r.val)]]
    ELSE LET b1 == [b EXCEPT !.unprotected_attributes = SomeAttributes({})]
             r  == Attributes_insert(b1.unprotected_attributes.set, attribute, encodable)
         IN  IF ~r.ok THEN [res |-> Err("InvalidAttribute"), builder |-> b1]
             ELSE [res |-> Ok(<<>>),
                   builder |-> [b1 EXCEPT !.unprotected_attributes = SomeAttributes(r.val)]]

\* A kem_recipient that looks at the key usage only after it has added the
\* recipient.
EnvelopedDataBuilder_kem_recipient_late_check(b, cert, kdf_oid, wrap_oid, ukm) ==
    LET km == KemManager_new_from_oid(Certificate_get_public_key_oid(cert))
        rb == KemRecipientInfoBuilder_new(cert, IF km.ok THEN km.val ELSE "None",
                                          kdf_oid, wrap_oid, ukm)
        b2 == [b EXCEPT !.kemri_builders = Append(@, rb)]
    IN  IF ~Certificate_is_key_encipherment_enabled(cert)
        THEN [res |-> Err("InvalidCertificate"), builder |-> b2]
        ELSE IF ~km.ok THEN [res |-> km, builder |-> b]
        ELSE [res |-> Ok(<<>>), builder |-> b2]

\* A kem_recipient that keeps one pending recipient per certificate.
EnvelopedDataBuilder_kem_recipient_dedup(b, cert, kdf_oid, wrap_oid, ukm) ==
    IF ~Certificate_is_key_encipherment_enabled(cert)
    THEN [res |-> Err("InvalidCertificate"), builder |-> b]
    ELSE LET km == KemManager_new_from_oid(Certificate_get_public_key_oid(cert))
         IN  IF ~km.ok THEN [res |-> km, builder |-> b]
             ELSE IF \E i \in 1..Len(b.kemri_builders) : b.kemri_builders[i].cert = cert
             THEN [res |-> Ok(<<>>), builder |-> b]
             ELSE [res |-> Ok(<<>>),
                   builder |-> [b EXCEPT !.kemri_builders =
                       Append(@, KemRecipientInfoBuilder_new(cert, km.val, kdf_oid,
                                                             wrap_oid, ukm))]]

EnvelopedDataBuilder_kem_recipient(b, cert, kdf_oid, wrap_oid, ukm) ==
    IF ~Certificate_is_key_encipherment_enabled(cert)
    THEN [res |-> Err("InvalidCertificate"), builder |-> b]
    ELSE LET km == KemManager_new_from_oid(Certificate_get_public_key_oid(cert))
         IN  IF ~km.ok THEN [res |-> km, builder |-> b]
             ELSE [res |-> Ok(<<>>),
                   builder |-> [b EXCEPT !.kemri_builders =
                       Append(@, KemRecipientInfoBuilder_new(cert, km.val, kdf_oid,
                                                             wrap_oid, ukm))]]

EnvelopedDataBuilder_kek_recipient(b, rb) == [b EXCEPT !.kek_builders = Append(@, rb)]
EnvelopedDataBuilder_ktri_recipient(b, rb) == [b EXCEPT !.ktri_builders = Append(@, rb)]
EnvelopedDataBuilder_kari_recipient(b, rb) == [b EXCEPT !.kari_builders = Append(@, rb)]
EnvelopedDataBuilder_pwri_recipient(b, rb) == [b EXCEPT !.pwri_builders = Append(@, rb)]
EnvelopedDataBuilder_ori_recipient(b, rb) == [b EXCEPT !.ori_builders = Append(@, rb)]

ContentEncryptionAlgorithm(cae_type) ==
    CASE cae_type = "Aes128CbcPad" -> "Aes128Cbc"
      [] cae_type = "Aes192CbcPad" -> "Aes192Cbc"
      [] cae_type = "Aes256CbcPad" -> "Aes256Cbc"
      [] OTHER -> "None"

\* A hand-over that starts with the KEK recipients.
AddedRecipientInfos_kek_first(b) ==
    b.kek_builders \o b.kemri_builders \o b.ktri_builders
        \o b.kari_builders \o b.pwri_builders \o b.ori_builders

\* The recipient-info builders in the order build hands them over.
AddedRecipientInfos(b) ==
    b.kemri_builders \o b.kek_builders \o b.ktri_builders
        \o b.kari_builders \o b.pwri_builders \o b.ori_builders

Orders(n) == {p \in [1..n -> 1..n] : \A i, j \in 1..n : p[i] = p[j] => i = j}

\* What is left of a build that hands over only its first KEM recipient.
EnvelopedDataBuilder_build_first_kem_only(b, seed, order) ==
    LET cea == ContentEncryptionAlgorithm(b.cae_type)
        cek == [len |-> CekLen(cea), draw |-> Draw(seed, 1)]
        iv  == Draw(seed, 2)
        ri  == KemRecipientInfoBuilder_build(b.kemri_builders[1], cek, Draw(seed, 3))
    IN  IF cea = "None" THEN Err("UnsupportedOperation")
        ELSE IF b.kemri_builders = <<>> \/ ~ri.ok THEN Err("Unknown")
        ELSE Ok([present |-> TRUE, content_type |-> ID_ENVELOPED_DATA,
                 originator_info |-> b.originator_info,
                 recipient_infos |-> <<ri.val>>,
                 encrypted_content |->
                     [content_type |-> ID_DATA, content_enc_alg |-> cea, iv |-> iv,
                      encrypted_content |-> cbc_encrypt(cea, cek, iv, b.plaintext)],
                 unprotected_attrs |-> b.unprotected_attributes])

\* build: the content-encryption key and the IV are the first two draws of the
\* generator, each recipient info takes one more; `order` is the order of the
\* recipientInfos SET in the encoding.
EnvelopedDataBuilder_build(b, seed, order) ==
    LET cea  == ContentEncryptionAlgorithm(b.cae_type)
        ribs == AddedRecipientInfos(b)
        cek  == [len |-> CekLen(cea), draw |-> Draw(seed, 1)]
        iv   == Draw(seed, 2)
        ris  == [j \in 1..Len(ribs) |-> RecipientInfoBuilder_build(ribs[j], cek, Draw(seed, 2 + j))]
    IN  IF cea = "None" THEN Err("UnsupportedOperation")
        ELSE IF \E j \in 1..Len(ribs) : ~ris[j].ok THEN Err("Unknown")
        ELSE Ok([present |-> TRUE, content_type |-> ID_ENVELOPED_DATA,
                 originator_info |-> b.originator_info,
                 recipient_infos |-> [j \in 1..Len(ribs) |-> ris[order[j]].val],
                 encrypted_content |->
                     [content_type |-> ID_DATA, content_enc_alg |-> cea, iv |-> iv,
                      encrypted_content |-> cbc_encrypt(cea, cek, iv, b.plaintext)],
                 unprotected_attrs |-> b.unprotected_attributes])

(***************************************************************************)
(* CmsManager::decrypt_kemri (cms::cms_manager, not part of the sources at *)
(* hand): the first KemRecipientInfo of the certificate, decap, key        *)
(* derivation, unwrap, content decryption.                                 *)
(***************************************************************************)
CmsManager_decrypt_kemri(env, sk, cert) ==
    LET ris == env.recipient_infos
        hit == {j \in 1..Len(ris) :
                    ris[j].kind = "kemri" /\ ris[j].rid = RecipientIdentifier(cert)}
    IN  IF env.content_type # ID_ENVELOPED_DATA THEN Err("SerializationFailed")
        ELSE IF hit = {} THEN Err("NoMatchingRecipient")
        ELSE LET ri == ris[CHOOSE j \in hit : \A k \in hit : j <= k]
                 ss == KemManager_decap(ri.kem, sk, ri.kemct)
             IN  IF ~ss.ok THEN ss
                 ELSE LET cek == Wrap_unwrap(ri.wrap, ri.encrypted_key,
                                     Kdf_derive(ri.kdf, ss.val, ri.wrap, ri.ukm))
                          ec  == env.encrypted_content
                      IN  IF ~cek.ok THEN cek
                          ELSE cbc_decrypt(ec.content_enc_alg, cek.val, ec.iv,
                                           ec.encrypted_content)

(***************************************************************************)
(* An enveloping session: a builder is made, recipients are added, the     *)
(* envelope is built and opened.                                           *)
(***************************************************************************)
MaxRecipients == 2
NumBuildSeeds == 2
Plaintexts == {<<>>, <<72, 105>>}

\* What the callers pass as KDF, wrap algorithm and user keying material.
RecipientParams ==
    {[kdf |-> "HkdfWithSha256", wrap |-> "Aes256", ukm |-> "None"],
     [kdf |-> "HkdfWithSha256", wrap |-> "Aes128", ukm |-> "ukm"]}

NoCall == [op |-> "none", cert |-> "none", cae |-> "none", from |-> NoBuilder, res |-> None]
Call(op, cert, cae, from, res) ==
    [op |-> op, cert |-> cert, cae |-> cae, from |-> from, res |-> res]
NotOpened == [cert |-> "none", sk_of |-> "none", res |-> None]

NumRecipients(b) == Len(AddedRecipientInfos(b))

CmsNew ==
    /\ ~builder.present /\ ~envelope.present
    /\ \E plaintext \in Plaintexts, cae_type \in CeaType :
          LET r == EnvelopedDataBuilder_new(plaintext, cae_type)
          IN  /\ builder' = IF r.ok THEN r.val ELSE NoBuilder
              /\ cmsResult' = Call("new", "none", cae_type, NoBuilder, IF r.ok THEN Ok(<<>>) ELSE r)
    /\ UNCHANGED <<lookup, keyVars, kem, dsa, envelope, opened, auxVars>>

CmsKemRecipient ==
    /\ builder.present /\ NumRecipients(builder) < MaxRecipients
    /\ \E cert \in Certs, p \in RecipientParams :
          LET r == EnvelopedDataBuilder_kem_recipient(builder, cert, p.kdf, p.wrap, p.ukm)
          IN  /\ builder' = r.builder
              /\ cmsResult' = Call("kem_recipient", cert.subject, "none", NoBuilder, r.res)
    /\ UNCHANGED <<lookup, keyVars, kem, dsa, envelope, opened, auxVars>>

\* What the callers pass as attributes.
AttributeInputs == {"attr1", "attr2"}

CmsAttribute ==
    /\ builder.present
    /\ \E attribute \in AttributeInputs, encodable \in BOOLEAN :
          LET r == EnvelopedDataBuilder_attribute(builder, attribute, encodable)
          IN  /\ builder' = r.builder
              /\ cmsResult' = Call("attribute", attribute, "none", builder, r.res)
    /\ UNCHANGED <<lookup, keyVars, kem, dsa, envelope, opened, auxVars>>

OtherCall(op) ==
    /\ builder.present /\ NumRecipients(builder) < MaxRecipients
    /\ cmsResult' = Call(op, "none", "none", NoBuilder, Ok(<<>>))
    /\ UNCHANGED <<lookup, keyVars, kem, dsa, envelope, opened, auxVars>>

CmsKekRecipient ==
    /\ OtherCall("kek_recipient")
    /\ \E builds \in BOOLEAN :
          builder' = EnvelopedDataBuilder_kek_recipient(builder,
                         [kind |-> "kekri", builds |-> builds])

CmsKtriRecipient ==
    /\ OtherCall("ktri_recipient")
    /\ \E builds \in BOOLEAN :
          builder' = EnvelopedDataBuilder_ktri_recipient(builder,
                         [kind |-> "ktri", builds |-> builds])

CmsKariRecipient ==
    /\ OtherCall("kari_recipient")
    /\ \E builds \in BOOLEAN :
          builder' = EnvelopedDataBuilder_kari_recipient(builder,
                         [kind |-> "kari", builds |-> builds])

CmsPwriRecipient ==
    /\ OtherCall("pwri_recipient")
    /\ \E builds \in BOOLEAN :
          builder' = EnvelopedDataBuilder_pwri_recipient(builder,
                         [kind |-> "pwri", builds |-> builds])

CmsOriRecipient ==
    /\ OtherCall("ori_recipient")
    /\ \E builds \in BOOLEAN :
          builder' = EnvelopedDataBuilder_ori_recipient(builder,
                         [kind |-> "ori", builds |-> builds])

\* build consumes the builder
CmsBuild ==
    /\ builder.present
    /\ \E seed \in 1..NumBuildSeeds, order \in Orders(NumRecipients(builder)) :
          LET r == EnvelopedDataBuilder_build(builder, seed, order)
          IN  /\ envelope' = IF r.ok THEN r.val ELSE NoEnvelope
              /\ cmsResult' = Call("build", "none", builder.cae_type, builder,
                                   IF r.ok THEN Ok(<<>>) ELSE r)
    /\ builder' = NoBuilder
    /\ UNCHANGED <<lookup, keyVars, kem, dsa, opened, auxVars>>

\* decrypt_kemri(bytes, sk, cert) with the certificate's own private key or,
\* for the first end entity, with the other end entity's
CmsOpen ==
    /\ envelope.present /\ opened = NotOpened
    /\ \E cert \in Certs, owner \in KemCerts :
          /\ owner = cert \/ (cert.subject = "ee1" /\ owner.subject = "ee2")
                \/ (cert \notin KemCerts /\ owner.subject = "ee1")
          /\ opened' = [cert |-> cert.subject, sk_of |-> owner.subject,
                        res |-> CmsManager_decrypt_kemri(envelope, CertPrivateKey(owner), cert)]
    /\ UNCHANGED <<lookup, keyVars, kem, dsa, builder, cmsResult, envelope, auxVars>>

(***************************************************************************)
(* Key lengths of the registry (dsa/common/config/sk_len.rs, pk_len.rs).   *)
(* Option<usize> is Some(n) or NoLen; each file is modelled with the tag   *)
(* names its own match arms use.                                           *)
(***************************************************************************)
Some(n) == [some |-> TRUE, val |-> n]
NoLen == [some |-> FALSE, val |-> 0]

RsaSkTags ==
    {"Rsa2048Pkcs15Sha256", "Rsa2048PssSha256", "Rsa3072Pkcs15Sha256",
     "Rsa3072PssSha256", "Rsa4096Pkcs15Sha384", "Rsa4096PssSha384"}

DsaSkTags ==
    RsaSkTags \cup {"EcdsaP256SHA256", "EcdsaBrainpoolP256r1SHA256", "EcdsaP384SHA384",
                    "EcdsaBrainpoolP384r1SHA384", "Ed25519", "Ed448"}

\* A get_sk_len that takes the P-384 scalars for 32 bytes long.
DsaType_get_sk_len_short_p384(t) ==
    CASE t \in RsaSkTags -> NoLen
      [] t = "Ed448" -> Some(57)
      [] OTHER -> Some(32)

DsaType_get_sk_len(t) ==
    CASE t \in RsaSkTags -> NoLen
      [] t \in {"EcdsaP256SHA256", "EcdsaBrainpoolP256r1SHA256"} -> Some(32)
      [] t \in {"EcdsaP384SHA384", "EcdsaBrainpoolP384r1SHA384"} -> Some(48)
      [] t = "Ed25519" -> Some(32)
      [] t = "Ed448" -> Some(57)

HashMlDsaTags == <<"HashMlDsa44", "HashMlDsa65", "HashMlDsa87">>

HashCompositeSkTags ==
    <<"HashMlDsa44Rsa2048PssSha256", "HashMlDsa44Rsa2048Pkcs15Sha256",
      "HashMlDsa44Ed25519Sha512", "HashMlDsa44EcdsaP256Sha256",
      "HashMlDsa65Rsa3072PssSha512", "HashMlDsa65Rsa3072Pkcs15Sha512",
      "HashMlDsa65Rsa4096PssSha512", "HashMlDsa65Rsa4096Pkcs15Sha512",
      "HashMlDsa65EcdsaP384Sha512", "HashMlDsa65EcdsaBrainpoolP256r1Sha512",
      "HashMlDsa65Ed25519Sha512", "HashMlDsa87EcdsaP384Sha512",
      "HashMlDsa87EcdsaBrainpoolP384r1Sha512", "HashMlDsa87Ed448Sha512">>

HashSlhDsaTags ==
    <<"HashSlhDsaSha2_128s", "HashSlhDsaSha2_128f", "HashSlhDsaSha2_192s",
      "HashSlhDsaSha2_192f", "HashSlhDsaSha2_256s", "HashSlhDsaSha2_256f",
      "HashSlhDsaShake128s", "HashSlhDsaShake128f", "HashSlhDsaShake192s",
      "HashSlhDsaShake192f", "HashSlhDsaShake256s", "HashSlhDsaShake256f">>

CompositeSkTags == Range(PureCompositeTags) \cup Range(HashCompositeSkTags)

PrehashSkTags ==
    Range(MlDsaTags) \cup Range(HashMlDsaTags) \cup CompositeSkTags
        \cup Range(SlhDsaTags) \cup Range(HashSlhDsaTags)

\* Position of a composite tag in its list: the pure and the hashed list
\* name the same fourteen pairs in the same order.
CompositeIndex(t) ==
    IF t \in Range(PureCompositeTags) THEN IndexOf(PureCompositeTags, t)
    ELSE IndexOf(HashCompositeSkTags, t)

\* Position of an SLH-DSA tag in its list.
SlhIndex(t) ==
    IF t \in Range(SlhDsaTags) THEN IndexOf(SlhDsaTags, t) ELSE IndexOf(HashSlhDsaTags, t)

PrehashDsaType_get_sk_len(t) ==
    CASE t \in {"MlDsa44", "HashMlDsa44"} -> Some(2560)
      [] t \in {"MlDsa65", "HashMlDsa65"} -> Some(4032)
      [] t \in {"MlDsa87", "HashMlDsa87"} -> Some(4896)
      [] t \in CompositeSkTags ->
            (CASE CompositeIndex(t) \in {1, 2, 5, 6, 7, 8} -> NoLen
               [] CompositeIndex(t) \in {3, 4} -> Some(2560 + 32 + 10)
               [] CompositeIndex(t) = 9 -> Some(4032 + 48 + 10)
               [] CompositeIndex(t) \in {10, 11} -> Some(4032 + 32 + 10)
               [] CompositeIndex(t) \in {12, 13} -> Some(4896 + 48 + 10)
               [] OTHER -> Some(4896 + 57 + 10))
      [] SlhIndex(t) \in {1, 2, 7, 8} -> Some(32 * 2)
      [] SlhIndex(t) \in {3, 4, 9, 10} -> Some(48 * 2)
      [] OTHER -> Some(64 * 2)

RsaPkTags ==
    {"Rsa2048Pkcs15SHA256", "Rsa2048PssSHA256", "Rsa3072Pkcs15SHA512", "Rsa3072PssSHA512"}

CompositePkTags ==
    {"MlDsa44Rsa2048PssSha256", "MlDsa44Rsa2048Pkcs15Sha256", "MlDsa44Ed25519SHA512",
     "MlDsa44EcdsaP256SHA256", "MlDsa44EcdsaBrainpoolP256r1SHA256",
     "MlDsa65Rsa3072PssSHA512", "MlDsa65Rsa3072Pkcs15SHA512", "MlDsa65EcdsaP256SHA512",
     "MlDsa65EcdsaBrainpoolP256r1SHA512", "MlDsa65Ed25519SHA512",
     "MlDsa87EcdsaP384SHA512", "MlDsa87EcdsaBrainpoolP384r1SHA512", "MlDsa87Ed448SHA512"}

DsaPkTags ==
    RsaPkTags \cup CompositePkTags \cup Range(MlDsaTags)
        \cup {"EcdsaP256SHA256", "EcdsaP256SHA512", "EcdsaP384SHA512",
              "EcdsaBrainpoolP256r1SHA256", "EcdsaBrainpoolP256r1SHA512",
              "EcdsaBrainpoolP384r1SHA512", "Ed25519SHA512", "Ed448SHA512"}

\* A get_pk_len that takes the EC points for compressed.
DsaType_get_pk_len_compressed(t) ==
    CASE t \in RsaPkTags \cup CompositePkTags -> NoLen
      [] t \in {"EcdsaP256SHA256", "EcdsaP256SHA512", "EcdsaBrainpoolP256r1SHA256",
                "EcdsaBrainpoolP256r1SHA512"} -> Some(33)
      [] t \in {"EcdsaP384SHA512", "EcdsaBrainpoolP384r1SHA512"} -> Some(49)
      [] t = "Ed25519SHA512" -> Some(32)
      [] t = "Ed448SHA512" -> Some(57)
      [] t = "MlDsa44" -> Some(1312)
      [] t = "MlDsa65" -> Some(1952)
      [] OTHER -> Some(2592)

DsaType_get_pk_len(t) ==
    CASE t \in RsaPkTags -> NoLen
      [] t \in {"EcdsaP256SHA256", "EcdsaP256SHA512", "EcdsaBrainpoolP256r1SHA256",
                "EcdsaBrainpoolP256r1SHA512"} -> Some(65)
      [] t \in {"EcdsaP384SHA512", "EcdsaBrainpoolP384r1SHA512"} -> Some(97)
      [] t = "Ed25519SHA512" -> Some(32)
      [] t = "Ed448SHA512" -> Some(57)
      [] t = "MlDsa44" -> Some(1312)
      [] t = "MlDsa65" -> Some(1952)
      [] t = "MlDsa87" -> Some(2592)
      [] OTHER -> NoLen

\* The two component algorithms of a composite tag (the registry's pair
\* (pq_tag, trad_tag)), by the names of sk_len.rs.
CompositePq == <<1, 1, 1, 1, 2, 2, 2, 2, 2, 2, 2, 3, 3, 3>>

CompositeTrad ==
    <<"Rsa2048PssSha256", "Rsa2048Pkcs15Sha256", "Ed25519", "EcdsaP256SHA256",
      "Rsa3072PssSha256", "Rsa3072Pkcs15Sha256", "Rsa4096PssSha384",
      "Rsa4096Pkcs15Sha384", "EcdsaP384SHA384", "EcdsaBrainpoolP256r1SHA256",
      "Ed25519", "EcdsaP384SHA384", "EcdsaBrainpoolP384r1SHA384", "Ed448">>

CompositeParts(t) ==
    [pq |-> (IF t \in Range(PureCompositeTags) THEN MlDsaTags ELSE HashMlDsaTags)[
                CompositePq[CompositeIndex(t)]],
     trad |-> CompositeTrad[CompositeIndex(t)]]

\* DER bytes that a SEQUENCE of two OCTET STRINGs of a and b bytes adds.
SequenceOfTwoOctetStrings(a, b) ==
    LET pq == 1 + Len(DerLen(a)) + a
        trad == 1 + Len(DerLen(b)) + b
    IN  1 + Len(DerLen(pq + trad)) + pq + trad - a - b

LenLookup(kind, t, len, parts) == [kind |-> kind, tag |-> t, len |-> len, parts |-> parts]

DsaSkLen ==
    /\ \E t \in DsaSkTags : lookup' = LenLookup("sk", t, DsaType_get_sk_len(t), <<>>)
    /\ UNCHANGED <<keyVars, kem, dsa, cmsVars, auxVars>>

PrehashSkLen ==
    /\ \E t \in PrehashSkTags :
          lookup' = LenLookup("sk", t, PrehashDsaType_get_sk_len(t), <<>>)
    /\ UNCHANGED <<keyVars, kem, dsa, cmsVars, auxVars>>

DsaPkLen ==
    /\ \E t \in DsaPkTags : lookup' = LenLookup("pk", t, DsaType_get_pk_len(t), <<>>)
    /\ UNCHANGED <<keyVars, kem, dsa, cmsVars, auxVars>>

\* get_sk_len of a composite tag and of its two components.
CompositeSkLen ==
    /\ \E t \in CompositeSkTags :
          LET p == CompositeParts(t)
          IN  lookup' = LenLookup("composite_sk", t, PrehashDsaType_get_sk_len(t),
                            <<[tag |-> p.pq, len |-> PrehashDsaType_get_sk_len(p.pq)],
                              [tag |-> p.trad, len |-> DsaType_get_sk_len(p.trad)]>>)
    /\ UNCHANGED <<keyVars, kem, dsa, cmsVars, auxVars>>

(***************************************************************************)
(* Prehash hashes of the registry (dsa/common/config/hash_type.rs), with   *)
(* the tag names of sk_len.rs.                                             *)
(***************************************************************************)
HashedTags == Range(HashMlDsaTags) \cup Range(HashCompositeSkTags) \cup Range(HashSlhDsaTags)

\* A get_hash_type that gives every hashed tag SHA-512.
PrehashDsaType_get_hash_type_sha512(t) == IF t \in HashedTags THEN Some("Sha512") ELSE NoLen

PrehashDsaType_get_hash_type(t) ==
    CASE t \in Range(MlDsaTags) \cup Range(PureCompositeTags) \cup Range(SlhDsaTags) -> NoLen
      [] t \in Range(HashMlDsaTags) -> Some("Sha512")
      [] t \in Range(HashCompositeSkTags) ->
            IF CompositeIndex(t) \in {1, 2, 4} THEN Some("Sha256") ELSE Some("Sha512")
      [] SlhIndex(t) \in {1, 2} -> Some("Sha256")
      [] SlhIndex(t) \in 3..6 -> Some("Sha512")
      [] SlhIndex(t) \in {7, 8} -> Some("Shake128")
      [] OTHER -> Some("Shake256")

\* get_hash_type of a tag; the record's len field holds the Option<HashType>.
HashTypeLookup ==
    /\ \E t \in PrehashSkTags :
          lookup' = LenLookup("hash", t, PrehashDsaType_get_hash_type(t), <<>>)
    /\ UNCHANGED <<keyVars, kem, dsa, cmsVars, auxVars>>

(***************************************************************************)
(* Idle values of the components.                                          *)
(***************************************************************************)
NoKey == [oid |-> <<>>, key |-> <<>>, is_composite |-> FALSE, present |-> FALSE]

KeyIdle ==
    /\ key = NoKey /\ der = None /\ pem = None
    /\ key2 = NoKey2 /\ der2 = None /\ pem2 = None
    /\ pkCall = NoPkCall

NoRerun == [op |-> "none", res |-> None]

AuxIdle == rerun = NoRerun /\ freed = <<>>

CmsIdle ==
    /\ builder = NoBuilder /\ cmsResult = NoCall
    /\ envelope = NoEnvelope /\ opened = NotOpened

InitRegistry ==
    /\ lookup = NoLookup
    /\ KeyIdle /\ kem = NoKem /\ dsa = NoDsa /\ CmsIdle /\ AuxIdle

NextRegistry == RegistryLookup

SpecRegistry == InitRegistry /\ [][NextRegistry]_vars

(***************************************************************************)
(* C1: the tag-to-OID mapping of the DSA registry is injective: two        *)
(* distinct DsaType tags never have the same OID.                          *)
(***************************************************************************)
C1_TagToOidInjective ==
    (lookup.t1 # "none" /\ lookup.t1 # lookup.t2) => lookup.oid1 # lookup.oid2

InitKey ==
    /\ lookup = NoLookup
    /\ KeyIdle /\ kem = NoKem /\ dsa = NoDsa /\ CmsIdle /\ AuxIdle

NextKey ==
    \/ KeyNew \/ KeyFromComposite
    \/ KeyToDer \/ KeyToPem
    \/ KeyFromDer \/ KeyFromPem
    \/ Key2ToDer \/ Key2ToPem

SpecKey == InitKey /\ [][NextKey]_vars

SameKey(a, b) == a.oid = b.oid /\ a.key = b.key /\ a.is_composite = b.is_composite

Rerun(op, r) == [op |-> op, res |-> r]

\* KemCore::generate_deterministic(d, z): (dk, ek), the pair d and z determine.
MlKem_generate_deterministic(t, d, z) ==
    <<[kind |-> "dk", set |-> t, id |-> <<d, z>>], [kind |-> "ek", set |-> t, id |-> <<d, z>>]>>

\* A key_gen_deterministic that keeps the primitive's order (dk, ek).
MlKemManager_key_gen_deterministic_unswapped(t, d, z) ==
    IF IsMlKem(t)
    THEN LET result == MlKem_generate_deterministic(t, d, z)
         IN  Ok(<<Bytes(DkLen(t), result[1]), Bytes(EkLen(t), result[2])>>)
    ELSE Err("NotImplemented")

\* MlKemManager::key_gen_deterministic: Ok((result.1 bytes, result.0 bytes)).
MlKemManager_key_gen_deterministic(t, d, z) ==
    IF IsMlKem(t)
    THEN LET result == MlKem_generate_deterministic(t, d, z)
         IN  Ok(<<Bytes(EkLen(t), result[2]), Bytes(DkLen(t), result[1])>>)
    ELSE Err("NotImplemented")

\* key_gen_deterministic(d, z), and a further call of it with (d2, z2)
KemKeyGenDeterministic ==
    /\ kem.stage = "new"
    /\ \E d, z, d2, z2 \in 1..NumSeeds :
          /\ kem' = [kem EXCEPT !.stage = "keyed_deterministic",
                                !.keys = MlKemManager_key_gen_deterministic(kem.kem_type, d, z)]
          /\ rerun' = Rerun("key_gen_deterministic",
                            [first |-> <<d, z>>, again |-> <<d2, z2>>,
                             keys |-> MlKemManager_key_gen_deterministic(kem.kem_type, d2, z2)])
    /\ UNCHANGED <<lookup, keyVars, dsa, cmsVars, freed>>

InitKem ==
    /\ lookup = NoLookup
    /\ KeyIdle /\ kem = NoKem /\ dsa = NoDsa /\ CmsIdle /\ AuxIdle

NextKem == KemNew \/ KemKeyGen \/ KemKeyGenDeterministic \/ KemEncap \/ KemDecap

SpecKem == InitKem /\ [][NextKem]_vars

(***************************************************************************)
(* C5: for each ML-KEM parameter set and every key pair (pk, sk) of        *)
(* key_gen, when encap(pk) returns (ss, ct), decap(sk, ct) returns the     *)
(* same ss, and ss is 32 bytes long.                                       *)
(***************************************************************************)
C5_KemCorrectness ==
    (kem.stage \in {"encapsulated", "decapsulated"} /\ kem.keys.ok
        /\ kem.pk_used = kem.keys.val[1] /\ kem.enc.ok) =>
       /\ kem.enc.val[1].len = 32
       /\ (kem.stage = "decapsulated" /\ kem.sk_used = kem.keys.val[2]) =>
             /\ kem.dec.ok
             /\ kem.dec.val = kem.enc.val[1]

\* An ML-KEM-1024 shared secret came back from decap under the key pair's own
\* secret key.
C5_Witness ==
    /\ kem.stage = "decapsulated" /\ kem.kem_type = "MlKem1024"
    /\ kem.keys.ok /\ kem.pk_used = kem.keys.val[1]
    /\ kem.sk_used = kem.keys.val[2]
    /\ kem.dec.ok /\ kem.dec.val.body.kind = "ss" /\ kem.dec.val.len = 32

InitDsa ==
    /\ lookup = NoLookup
    /\ KeyIdle /\ kem = NoKem /\ dsa = NoDsa /\ CmsIdle /\ AuxIdle

NextDsa ==
    \/ DsaNew \/ DsaKeyGen \/ DsaGetPublicKey \/ DsaSign \/ DsaOtherCtx \/ DsaVerify
    \/ DsaSignPrehash \/ DsaVerifyPrehash

SpecDsa == InitDsa /\ [][NextDsa]_vars

(***************************************************************************)
(* C6: for every tag an EcDsaManager, RsaDsaManager or MlDsaManager        *)
(* implements, every key pair of key_gen and every message m,              *)
(* verify(pk, m, sign(sk, m)) is Ok(true).                                 *)
(***************************************************************************)
C6_SignVerify ==
    (dsa.stage = "verified" /\ dsa.tamper = "none") => dsa.ver = Ok(TRUE)

\* An RSA-PSS signature was verified as it came from sign.
C6_Witness ==
    /\ dsa.stage = "verified" /\ dsa.tamper = "none"
    /\ dsa.tag = "Rsa3072PssSha256" /\ dsa.ver = Ok(TRUE)

C8_PrehashSignVerify ==
    dsa.stage = "prehash-verified" => dsa.ver = Ok(TRUE)

InitCms ==
    /\ lookup = NoLookup
    /\ KeyIdle /\ kem = NoKem /\ dsa = NoDsa /\ CmsIdle /\ AuxIdle

NextCms ==
    \/ CmsNew \/ CmsKemRecipient
    \/ CmsKekRecipient \/ CmsKtriRecipient \/ CmsKariRecipient
    \/ CmsPwriRecipient \/ CmsOriRecipient
    \/ CmsBuild \/ CmsOpen

SpecCms == InitCms /\ [][NextCms]_vars

\* The builder the envelope was built from.
BuiltFrom == cmsResult.from

(***************************************************************************)
(* C2: an envelope built from plaintext P after n >= 1 successful          *)
(* kem_recipient calls opens to exactly P with the private key and the     *)
(* certificate of each of the n recipients, wherever the recipient stands  *)
(* in the list and whatever KEM algorithms the others use.                 *)
(***************************************************************************)
C2_EnvelopeRoundTrip ==
    (envelope.present /\ opened # NotOpened) =>
        \A i \in 1..Len(BuiltFrom.kemri_builders) :
            (/\ opened.cert = BuiltFrom.kemri_builders[i].cert.subject
             /\ opened.sk_of = opened.cert)
                => opened.res = Ok(BuiltFrom.plaintext)

\* The composite-KEM recipient, added after an ML-KEM recipient and not the
\* first in the encoding, got the plaintext back.
C2_Witness ==
    /\ envelope.present /\ opened.cert = "ee2" /\ opened.sk_of = "ee2"
    /\ Len(BuiltFrom.kemri_builders) >= 2
    /\ BuiltFrom.kemri_builders[1].cert.subject = "ee1"
    /\ BuiltFrom.kemri_builders[2].cert.subject = "ee2"
    /\ envelope.recipient_infos[1].rid # <<"ta2", 2>>
    /\ BuiltFrom.plaintext # <<>>
    /\ opened.res = Ok(BuiltFrom.plaintext)

(***************************************************************************)
(* C9: kem_recipient with a certificate that does not enable               *)
(* keyEncipherment returns InvalidCertificate and leaves every recipient   *)
(* list of the builder as it was; the builder stays usable, and no         *)
(* envelope built later has a KemRecipientInfo for that certificate.       *)
(***************************************************************************)
NoKeyEncipherment == {c \in Certs : ~c.key_encipherment}

C9_Rejected ==
    /\ (cmsResult.op = "kem_recipient" /\ CertNamed(cmsResult.cert) \in NoKeyEncipherment) =>
            /\ cmsResult.res = Err("InvalidCertificate")
            /\ builder.present
    /\ builder.present =>
            \A i \in 1..Len(builder.kemri_builders) :
                builder.kemri_builders[i].cert \notin NoKeyEncipherment
    /\ envelope.present =>
            \A j \in 1..Len(envelope.recipient_infos) :
                envelope.recipient_infos[j].kind = "kemri" =>
                    \A c \in NoKeyEncipherment :
                        envelope.recipient_infos[j].rid # RecipientIdentifier(c)

C9_RecipientRejected ==
    /\ []C9_Rejected
    /\ [][(cmsResult'.op = "kem_recipient" /\ ~cmsResult'.res.ok) => builder' = builder]_vars

\* The trust anchor was refused by a builder that already had a recipient.
C9_Witness ==
    /\ cmsResult.op = "kem_recipient" /\ cmsResult.cert = "ta"
    /\ cmsResult.res = Err("InvalidCertificate")
    /\ builder.present /\ Len(builder.kemri_builders) = 1

(***************************************************************************)
(* C10: creating or building an EnvelopedData with a content-encryption    *)
(* algorithm that is not AES-128-CBC, AES-192-CBC or AES-256-CBC fails     *)
(* with the unsupported-algorithm kind, and there is no builder and no     *)
(* output.                                                                 *)
(***************************************************************************)
C10_CeaRejected ==
    /\ (cmsResult.op = "new" /\ cmsResult.cae \notin ALLOWED_CAE_TYPES) =>
            /\ ~cmsResult.res.ok
            /\ ErrorKind(cmsResult.res.err) = "unsupported-algorithm"
            /\ ~builder.present /\ ~envelope.present
    /\ (cmsResult.op = "build" /\ cmsResult.cae \notin ALLOWED_CAE_TYPES) =>
            /\ ~cmsResult.res.ok
            /\ ErrorKind(cmsResult.res.err) = "unsupported-algorithm"
            /\ ~envelope.present
    /\ builder.present => builder.cae_type \in ALLOWED_CAE_TYPES
    /\ envelope.present =>
            envelope.encrypted_content.content_enc_alg \in {"Aes128Cbc", "Aes192Cbc", "Aes256Cbc"}

\* new was refused for AES-256-GCM.
C10_Witness ==
    /\ cmsResult.op = "new" /\ cmsResult.cae = "Aes256Gcm"
    /\ cmsResult.res = Err("UnsupportedOperation") /\ ~builder.present

(***************************************************************************)
(* The PrivateKey interface: one constructor call on any input, then any   *)
(* sequence of method calls on the key it returned.                        *)
(***************************************************************************)
InitPk ==
    /\ lookup = NoLookup
    /\ KeyIdle /\ kem = NoKem /\ dsa = NoDsa /\ CmsIdle /\ AuxIdle

NextPk ==
    \/ PkNew \/ PkFromDer \/ PkFromPem \/ PkFromComposite
    \/ PkGetOid \/ PkGetKey \/ PkIsComposite \/ PkToDer \/ PkToPem \/ PkSign

SpecPk == InitPk /\ [][NextPk]_vars

\* C11: from_pem returns InvalidPrivateKey, and no key, for every text that
\* is not a well-formed PEM block labelled "PRIVATE KEY": the empty text, a
\* text without header lines, a block whose body is not base64, a block
\* with another label; and every failure of from_pem is of that one kind.
C11_FromPemRejects ==
    key2.via = "pem" =>
        /\ key2.class \in PemBrokenClasses =>
              key2.res = Err("InvalidPrivateKey") /\ ~key.present
        /\ ~key2.res.ok => key2.res.err = "InvalidPrivateKey" /\ ~key.present

C11_Witness ==
    /\ key2.via = "pem" /\ key2.class = "wrong-label" /\ is_valid_oid(key2.oid)
    /\ key2.res = Err("InvalidPrivateKey")

\* C12: new, from_der and from_pem on a well-formed argument whose OID the
\* registry does not hold return InvalidPrivateKey and construct no key.
C12_UnknownOidRejected ==
    (/\ key2.via \in {"new", "der", "pem"}
     /\ key2.class = "good"
     /\ key2.oid \notin DsaOids \cup KemOids)
        => key2.res = Err("InvalidPrivateKey") /\ ~key.present

C12_Witness ==
    /\ key2.via = "der" /\ key2.class = "good" /\ key2.oid = RsaEncryptionOid
    /\ key2.res = Err("InvalidPrivateKey")

\* C13: every PrivateKey a constructor (new, from_der, from_pem,
\* from_composite) returns has a recognized OID, and is_composite is true
\* exactly when that OID is a composite OID.
C13_KeyInvariant ==
    key2.res.ok =>
        /\ is_valid_oid(key2.res.val.oid)
        /\ key2.res.val.is_composite <=> is_composite_oid(key2.res.val.oid)

\* C14: sign on a key whose OID is no DSA OID returns an error, no
\* signature, and invokes no primitive; on a DSA OID it invokes exactly one
\* primitive, one the registry holds under exactly that OID, with the key
\* bytes and the data unchanged.
C14_SignDispatch ==
    pkCall.op = "sign" =>
        IF ~is_dsa_oid(key.oid)
        THEN ~pkCall.res.ok /\ pkCall.invoked = <<>>
        ELSE /\ Len(pkCall.invoked) = 1
             /\ pkCall.invoked[1].dsa_type \in DsaTagsOfOid(key.oid)
             /\ pkCall.invoked[1].sk = key.key
             /\ pkCall.invoked[1].data = pkCall.data

C14_Witness ==
    /\ pkCall.op = "sign" /\ is_kem_oid(key.oid)
    /\ ~pkCall.res.ok /\ pkCall.invoked = <<>>

\* C15: a PrivateKey is immutable: after any sequence of get_oid, get_key,
\* is_composite, to_der, to_pem and sign calls, successful or failing, its
\* oid, key and is_composite are the values it was constructed with.
C15_Immutable ==
    key.present =>
        /\ key.oid = key2.res.val.oid
        /\ key.key = key2.res.val.key
        /\ key.is_composite = key2.res.val.is_composite

C15_Witness ==
    /\ pkCall.op = "to_der" /\ pkCall.res.ok /\ Len(key.key) > 0
    /\ key = key2.res.val

(***************************************************************************)
(* The key lengths of the registry: get_sk_len and get_pk_len of any tag.  *)
(***************************************************************************)
InitLen ==
    /\ lookup = NoLookup
    /\ KeyIdle /\ kem = NoKem /\ dsa = NoDsa /\ CmsIdle /\ AuxIdle

NextLen == DsaSkLen \/ PrehashSkLen \/ DsaPkLen \/ CompositeSkLen \/ HashTypeLookup

SpecLen == InitLen /\ [][NextLen]_vars

\* C16: for every composite DSA tag, pure and hashed, get_sk_len is the sum
\* of the secret-key lengths of its post-quantum and its traditional
\* component and of the DER overhead of a SEQUENCE of two OCTET STRINGs,
\* which is 10 bytes for every pair, when the traditional component has a
\* fixed secret-key length; it is None exactly when that component is RSA.
C16_CompositeSkLen ==
    (lookup = NoLookup \/ lookup.kind # "composite_sk") \/
        LET pq == lookup.parts[1].len
            trad == lookup.parts[2].len
        IN  /\ pq.some
            /\ ~lookup.len.some <=> lookup.parts[2].tag \in RsaSkTags
            /\ trad.some =>
                  /\ SequenceOfTwoOctetStrings(pq.val, trad.val) = 10
                  /\ lookup.len =
                        Some(pq.val + trad.val + SequenceOfTwoOctetStrings(pq.val, trad.val))

C16_Witness ==
    /\ lookup # NoLookup /\ lookup.kind = "composite_sk"
    /\ lookup.tag = "HashMlDsa87Ed448Sha512" /\ lookup.len = Some(4963)

\* C17: the registry's lengths are exact: ML-DSA-44 pk 1312 and sk 2560,
\* ML-DSA-65 1952 and 4032, ML-DSA-87 2592 and 4896, Ed25519 32 and 32,
\* Ed448 57 and 57, ECDSA P-256 pk 65 and sk 32; and None for the pk and
\* the sk of every RSA tag.
C17_ExactLengths ==
    (lookup = NoLookup \/ lookup.kind \notin {"sk", "pk"}) \/
        LET Is(kind, tags, n) ==
                (lookup.kind = kind /\ lookup.tag \in tags) => lookup.len = Some(n)
        IN  /\ Is("pk", {"MlDsa44"}, 1312) /\ Is("sk", {"MlDsa44"}, 2560)
            /\ Is("pk", {"MlDsa65"}, 1952) /\ Is("sk", {"MlDsa65"}, 4032)
            /\ Is("pk", {"MlDsa87"}, 2592) /\ Is("sk", {"MlDsa87"}, 4896)
            /\ Is("pk", {"Ed25519SHA512"}, 32) /\ Is("sk", {"Ed25519"}, 32)
            /\ Is("pk", {"Ed448SHA512"}, 57) /\ Is("sk", {"Ed448"}, 57)
            /\ Is("pk", {"EcdsaP256SHA256", "EcdsaP256SHA512"}, 65)
            /\ Is("sk", {"EcdsaP256SHA256"}, 32)
            /\ (lookup.kind = "pk" /\ lookup.tag \in RsaPkTags) => lookup.len = NoLen
            /\ (lookup.kind = "sk" /\ lookup.tag \in RsaSkTags) => lookup.len = NoLen

C17_Witness ==
    /\ lookup # NoLookup /\ lookup.kind = "pk"
    /\ lookup.tag = "EcdsaP256SHA256" /\ lookup.len = Some(65)

(***************************************************************************)
(* Both enumerations of the registry: the OIDs of any two tags.            *)
(***************************************************************************)
InitOids ==
    /\ lookup = NoLookup
    /\ KeyIdle /\ kem = NoKem /\ dsa = NoDsa /\ CmsIdle /\ AuxIdle

NextOids == RegistryLookup \/ PrehashLookup

SpecOids == InitOids /\ [][NextOids]_vars

\* No two PrehashDsaType tags share an OID.
PrehashOidsDistinct ==
    (/\ lookup.t1 \in PrehashDsaType /\ lookup.t2 \in PrehashDsaType
     /\ lookup.t1 # lookup.t2) => lookup.oid1 # lookup.oid2

\* No PrehashDsaType OID is the OID of a DsaType tag.
PrehashOidsApart ==
    (lookup.t1 \in PrehashDsaType /\ lookup.t2 \in DsaType) => lookup.oid1 # lookup.oid2

\* C18: no two PrehashDsaType tags share an OID and no PrehashDsaType OID
\* is the OID of a DsaType tag, so every recognized OID maps to exactly one
\* tag across both enumerations.
C18_OneTagPerOid ==
    /\ PrehashOidsDistinct
    /\ PrehashOidsApart
    /\ (/\ lookup.t1 \in DsaType \cup PrehashDsaType
        /\ lookup.t2 \in DsaType \cup PrehashDsaType
        /\ lookup.oid1 = lookup.oid2) => lookup.t1 = lookup.t2

\* The sixteen error kinds of the taxonomy.
Taxonomy ==
    {"invalid-public-key", "invalid-private-key", "invalid-signature",
     "invalid-certificate", "invalid-ciphertext", "invalid-attribute",
     "unsupported-algorithm", "keygen-failed", "signature-failed",
     "verification-failed", "encap-failed", "decap-failed", "decryption-failed",
     "serialization-failed", "no-matching-recipient", "not-implemented"}

\* C19: the bytes a successful build returns are a ContentInfo whose
\* contentType is 1.2.840.113549.1.9.16.1.23 and whose content is the
\* EnvelopedData.
C19_ContentTypeAsStated ==
    (cmsResult.op = "build" /\ cmsResult.res.ok) =>
        /\ envelope.present
        /\ envelope.content_type = <<1, 2, 840, 113549, 1, 9, 16, 1, 23>>

\* C19, amended: the bytes a successful build returns are a ContentInfo
\* whose contentType is id-envelopedData, 1.2.840.113549.1.7.3, and whose
\* content is the EnvelopedData: the originator info, the recipient infos
\* of the recipients added, the encrypted content (of type id-data) and
\* the unprotected attributes.
C19_ContentInfo ==
    (cmsResult.op = "build" /\ cmsResult.res.ok) =>
        /\ envelope.present
        /\ envelope.content_type = <<1, 2, 840, 113549, 1, 7, 3>>
        /\ Len(envelope.recipient_infos) = NumRecipients(BuiltFrom)
        /\ envelope.encrypted_content.content_type = <<1, 2, 840, 113549, 1, 7, 1>>
        /\ envelope.originator_info = BuiltFrom.originator_info
        /\ envelope.unprotected_attrs = BuiltFrom.unprotected_attributes

C19_Witness ==
    /\ cmsResult.op = "build" /\ cmsResult.res.ok
    /\ envelope.present /\ Len(envelope.recipient_infos) = 2
    /\ envelope.content_type = <<1, 2, 840, 113549, 1, 7, 3>>

\* C20: every error a public operation returns is one of the sixteen kinds
\* of the taxonomy.
C20_ErrorsInTaxonomy ==
    (cmsResult.op # "none" /\ ~cmsResult.res.ok) =>
        ErrorKind(cmsResult.res.err) \in Taxonomy

(***************************************************************************)
(* The randomized operations run twice on the same inputs.  key_gen_with_  *)
(* rng draws from the generator its caller passes; encap and build seed a  *)
(* generator of their own with ChaCha20Rng::from_entropy().                *)
(***************************************************************************)

\* key_gen_with_rng(rng), twice, the caller's generator in the same state.
RngKeyGenTwice ==
    /\ kem.stage = "new"
    /\ \E seed \in 1..NumSeeds :
          /\ kem' = [kem EXCEPT !.stage = "keyed", !.seed = seed,
                                !.keys = MlKemManager_key_gen_with_rng(kem.kem_type, seed)]
          /\ rerun' = Rerun("key_gen_with_rng",
                            MlKemManager_key_gen_with_rng(kem.kem_type, seed))
    /\ UNCHANGED <<lookup, keyVars, dsa, cmsVars, freed>>

\* encap(pk), twice: each call draws its own entropy.
RngEncapTwice ==
    /\ kem.stage = "keyed" /\ kem.keys.ok
    /\ \E r1 \in 1..NumRand, r2 \in 1..NumRand :
          LET pk == kem.keys.val[1]
          IN  /\ kem' = [kem EXCEPT !.stage = "encapsulated", !.pk_used = pk,
                                    !.enc = MlKemManager_encap(kem.kem_type, pk, r1)]
              /\ rerun' = Rerun("encap", MlKemManager_encap(kem.kem_type, pk, r2))
    /\ UNCHANGED <<lookup, keyVars, dsa, cmsVars, freed>>

\* build(), on two builders made by the same calls: each build draws its own
\* entropy.
RngBuildTwice ==
    /\ builder.present
    /\ \E seed1 \in 1..NumBuildSeeds, seed2 \in 1..NumBuildSeeds,
          order \in Orders(NumRecipients(builder)) :
          LET r1 == EnvelopedDataBuilder_build(builder, seed1, order)
              r2 == EnvelopedDataBuilder_build(builder, seed2, order)
          IN  /\ envelope' = IF r1.ok THEN r1.val ELSE NoEnvelope
              /\ cmsResult' = Call("build", "none", builder.cae_type, builder,
                                   IF r1.ok THEN Ok(<<>>) ELSE r1)
              /\ rerun' = Rerun("build", r2)
    /\ builder' = NoBuilder
    /\ UNCHANGED <<lookup, keyVars, kem, dsa, opened, freed>>

InitRng ==
    /\ lookup = NoLookup
    /\ KeyIdle /\ kem = NoKem /\ dsa = NoDsa /\ CmsIdle /\ AuxIdle

NextRng ==
    \/ KemNew \/ RngKeyGenTwice \/ RngEncapTwice
    \/ CmsNew \/ CmsKemRecipient \/ RngBuildTwice

SpecRng == InitRng /\ [][NextRng]_vars

\* key_gen_with_rng gives the same key pair for the same generator state.
KeyGenRepeats == rerun.op = "key_gen_with_rng" => rerun.res = kem.keys

\* C21: every randomized operation takes its randomness from a generator
\* its caller supplies: two runs of ML-KEM encapsulation, of EnvelopedData
\* build or of key generation with the same inputs and the same generator
\* state give the same output.
C21_SameRngSameOutput ==
    /\ KeyGenRepeats
    /\ rerun.op = "encap" => rerun.res = kem.enc
    /\ rerun.op = "build" =>
          /\ rerun.res.ok = cmsResult.res.ok
          /\ rerun.res.ok => rerun.res.val = envelope

\* The hashed composite tags whose name ends in Sha256, and in Sha512.
NamedSha256 ==
    {"HashMlDsa44Rsa2048PssSha256", "HashMlDsa44Rsa2048Pkcs15Sha256",
     "HashMlDsa44EcdsaP256Sha256"}
NamedSha512 == Range(HashCompositeSkTags) \ NamedSha256

\* C23: for every prehash-DSA tag, get_hash_type returns a hash exactly
\* when the tag is a hashed ("Hash...") variant and None for every pure
\* variant, and each hashed composite variant has the hash its tag names:
\* SHA-256 for the ...Sha256 tags, SHA-512 for the ...Sha512 tags.
C23_HashType ==
    (lookup = NoLookup \/ lookup.kind # "hash") \/
        /\ lookup.len.some <=> lookup.tag \in HashedTags
        /\ lookup.tag \in NamedSha256 => lookup.len = Some("Sha256")
        /\ lookup.tag \in NamedSha512 => lookup.len = Some("Sha512")

C23_Witness ==
    /\ lookup # NoLookup /\ lookup.kind = "hash"
    /\ lookup.tag = "HashMlDsa44EcdsaP256Sha256" /\ lookup.len = Some("Sha256")

\* The certificates kem_recipient accepts: key encipherment and a KEM key.
ValidKemCerts == {c \in KemCerts : Certificate_is_key_encipherment_enabled(c)}

\* The KemRecipientInfos of the envelope that are for a certificate.
KemRecipientInfosFor(env, c) ==
    {j \in 1..Len(env.recipient_infos) :
        /\ env.recipient_infos[j].kind = "kemri"
        /\ env.recipient_infos[j].rid = RecipientIdentifier(c)}

\* The pending KEM recipients of a builder that are for a certificate.
PendingFor(b, c) == {i \in 1..Len(b.kemri_builders) : b.kemri_builders[i].cert = c}

\* One step of the session, as C22 describes it.
C22_Step ==
    /\ (cmsResult'.op = "kem_recipient" /\ cmsResult'.cert \in {c.subject : c \in ValidKemCerts})
            => cmsResult'.res.ok
    /\ (builder.present /\ cmsResult'.op = "kem_recipient") =>
            Len(builder'.kemri_builders) =
                Len(builder.kemri_builders) + (IF cmsResult'.res.ok THEN 1 ELSE 0)
    /\ (builder.present /\ builder'.present /\ cmsResult'.op # "kem_recipient") =>
            builder'.kemri_builders = builder.kemri_builders
    /\ (cmsResult'.op = "build" /\ cmsResult'.res.ok) =>
            \A c \in Certs :
                Cardinality(KemRecipientInfosFor(envelope', c)) =
                    Cardinality(PendingFor(cmsResult'.from, c))

\* C22: duplicate KEM recipients are permitted: kem_recipient with the same
\* valid certificate succeeds each time, the number of pending KEM
\* recipients goes up by one with every successful kem_recipient call and
\* with nothing else, and build emits one KemRecipientInfo per call, none
\* rejected and none merged.
C22_DuplicatesKept == [][C22_Step]_vars

C22_Witness ==
    /\ cmsResult.op = "build" /\ cmsResult.res.ok /\ envelope.present
    /\ Len(BuiltFrom.kemri_builders) = 2
    /\ BuiltFrom.kemri_builders[1].cert = BuiltFrom.kemri_builders[2].cert
    /\ Cardinality(KemRecipientInfosFor(envelope, BuiltFrom.kemri_builders[1].cert)) = 2

(***************************************************************************)
(* The life of a PrivateKey: constructed, cloned, dropped.  PrivateKey     *)
(* derives Clone and has no Drop implementation: dropping it frees the     *)
(* Vec<u8> of the key material as it is.                                   *)
(***************************************************************************)
MaxFreed == 2

\* The bytes a dropped PrivateKey leaves in the buffer of its key material.
PrivateKey_drop(k) == k.key

\* #[derive(Clone)]: a copy of every field, the key material in a buffer of
\* its own.
PrivateKey_clone(k) == k

PkClone ==
    /\ key.present
    /\ pkCall' = PkCall("clone", <<>>, <<>>, Ok(PrivateKey_clone(key)))
    /\ UNCHANGED <<lookup, key, der, pem, key2, der2, pem2, kem, dsa, cmsVars, auxVars>>

\* The clone the last call returned goes out of scope.
PkDropClone ==
    /\ pkCall.op = "clone" /\ Len(freed) < MaxFreed
    /\ freed' = Append(freed, [owner |-> "clone", bytes |-> PrivateKey_drop(pkCall.res.val)])
    /\ pkCall' = PkCall("drop", <<>>, <<>>, Ok(<<>>))
    /\ UNCHANGED <<lookup, key, der, pem, key2, der2, pem2, kem, dsa, cmsVars, rerun>>

\* The key goes out of scope.
PkDrop ==
    /\ key.present /\ Len(freed) < MaxFreed
    /\ freed' = Append(freed, [owner |-> "key", bytes |-> PrivateKey_drop(key)])
    /\ key' = NoKey
    /\ UNCHANGED <<lookup, der, pem, key2, der2, pem2, pkCall, kem, dsa, cmsVars, rerun>>

InitDrop ==
    /\ lookup = NoLookup
    /\ KeyIdle /\ kem = NoKem /\ dsa = NoDsa /\ CmsIdle /\ AuxIdle

NextDrop ==
    \/ PkNew \/ PkFromDer \/ PkFromPem \/ PkFromComposite
    \/ PkClone \/ PkDropClone \/ PkDrop

SpecDrop == InitDrop /\ [][NextDrop]_vars

\* C24: when a PrivateKey is destroyed the buffer of its key material has
\* been overwritten with zeros, and so for every clone of the key: no copy
\* of the secret bytes outlives the objects that own it.
C24_ZeroizedOnDrop ==
    \A i \in 1..Len(freed) :
        \A j \in 1..Len(freed[i].bytes) : freed[i].bytes[j] = 0

\* C25: no operation of RsaDsaManager, MlKemManager or PrivateKey panics,
\* whatever the tag or the input: a manager made for a tag outside its
\* family answers key_gen, sign, verify, encap and decap with an error such
\* as NotImplemented.
C25_NoPanic ==
    kem = NoKem \/ (kem.keys # Panic /\ kem.enc # Panic /\ kem.dec # Panic)

\* C26: MlKemManager::key_gen_deterministic is a function of the KEM type, d
\* and z: calls with equal inputs return equal key pairs.  The pair is
\* (pk, sk), the order of key_gen_with_rng: an encapsulation key of the
\* type's public-key length, then a decapsulation key of its secret-key
\* length.  For a KEM type outside ML-KEM the result is NotImplemented.
C26_KeyGenDeterministic ==
    rerun.op = "key_gen_deterministic" =>
        /\ rerun.res.first = rerun.res.again => rerun.res.keys = kem.keys
        /\ IsMlKem(kem.kem_type) =>
              /\ kem.keys.ok
              /\ kem.keys.val[1].body.kind = "ek" /\ kem.keys.val[1].len = EkLen(kem.kem_type)
              /\ kem.keys.val[2].body.kind = "dk" /\ kem.keys.val[2].len = DkLen(kem.kem_type)
              /\ \A seed \in 1..NumSeeds :
                    LET g == MlKemManager_key_gen_with_rng(kem.kem_type, seed).val
                    IN  /\ g[1].body.kind = kem.keys.val[1].body.kind
                        /\ g[2].body.kind = kem.keys.val[2].body.kind
              /\ MlKemManager_encap(kem.kem_type, kem.keys.val[1], 1).ok
        /\ ~IsMlKem(kem.kem_type) => kem.keys = Err("NotImplemented")

C26_Witness ==
    /\ rerun.op = "key_gen_deterministic"
    /\ rerun.res.first = rerun.res.again
    /\ kem.kem_type = "MlKem768" /\ kem.keys.ok

\* Place of a recipient kind in the hand-over of build.
KindRank(kind) ==
    CASE kind = "kemri" -> 1 [] kind = "kekri" -> 2 [] kind = "ktri" -> 3
      [] kind = "kari" -> 4 [] kind = "pwri" -> 5 [] kind = "ori" -> 6

IsPrefix(a, b) == Len(a) <= Len(b) /\ SubSeq(b, 1, Len(a)) = a

OfKind(ribs, kind) == SelectSeq(ribs, LAMBDA rb : rb.kind = kind)

\* The recipient infos of env are those of the builders ribs, each built
\* with the draw of its place in ribs, in the order of ribs.
EmittedAsHandedOver(env, b, ribs) ==
    \E seed \in 1..NumBuildSeeds :
        LET cek == [len |-> CekLen(ContentEncryptionAlgorithm(b.cae_type)), draw |-> Draw(seed, 1)]
        IN  env.recipient_infos =
                [j \in 1..Len(ribs) |-> RecipientInfoBuilder_build(ribs[j], cek, Draw(seed, 2 + j)).val]

\* The same, in some order of the SET.
EmittedInSomeOrder(env, b, ribs) ==
    \E seed \in 1..NumBuildSeeds, order \in Orders(Len(ribs)) :
        LET cek == [len |-> CekLen(ContentEncryptionAlgorithm(b.cae_type)), draw |-> Draw(seed, 1)]
        IN  env.recipient_infos =
                [j \in 1..Len(ribs) |->
                    RecipientInfoBuilder_build(ribs[order[j]], cek, Draw(seed, 2 + order[j])).val]

\* C27 as stated: build emits the recipient infos in a fixed order that
\* does not depend on how the calls were interleaved: all KEM recipients
\* first, then KEK, key-transport, key-agreement, password and other
\* recipients, and within each kind in the order of its *_recipient calls.
C27_EmittedInFixedOrder ==
    (cmsResult.op = "build" /\ cmsResult.res.ok) =>
        EmittedAsHandedOver(envelope, cmsResult.from, AddedRecipientInfos(cmsResult.from))

C27_Step ==
    /\ (builder.present /\ builder'.present) =>
          /\ IsPrefix(builder.kemri_builders, builder'.kemri_builders)
          /\ IsPrefix(builder.kek_builders, builder'.kek_builders)
          /\ IsPrefix(builder.ktri_builders, builder'.ktri_builders)
          /\ IsPrefix(builder.kari_builders, builder'.kari_builders)
          /\ IsPrefix(builder.pwri_builders, builder'.pwri_builders)
          /\ IsPrefix(builder.ori_builders, builder'.ori_builders)
    /\ (builder.present /\ cmsResult'.op = "build" /\ cmsResult'.res.ok) =>
          LET ribs == AddedRecipientInfos(builder)
          IN  /\ \A i, j \in 1..Len(ribs) :
                    i < j => KindRank(ribs[i].kind) <= KindRank(ribs[j].kind)
              /\ OfKind(ribs, "kemri") = builder.kemri_builders
              /\ OfKind(ribs, "kekri") = builder.kek_builders
              /\ OfKind(ribs, "ktri") = builder.ktri_builders
              /\ OfKind(ribs, "kari") = builder.kari_builders
              /\ OfKind(ribs, "pwri") = builder.pwri_builders
              /\ OfKind(ribs, "ori") = builder.ori_builders
              /\ EmittedInSomeOrder(envelope', builder, ribs)

\* C27, amended: build hands the recipient-info builders over in a fixed
\* order that does not depend on how the calls were interleaved (all KEM
\* recipients first, then KEK, key-transport, key-agreement, password and
\* other recipients, within each kind in the order of its *_recipient
\* calls), and each takes the draw of its place in that order; the
\* recipientInfos SET of the output holds exactly the recipient infos built
\* from them, in the order of the SET's encoding.
C27_HandedOverInFixedOrder == [][C27_Step]_vars

C27_Witness ==
    /\ cmsResult.op = "build" /\ cmsResult.res.ok
    /\ Len(envelope.recipient_infos) = 2
    /\ Len(cmsResult.from.kemri_builders) = 1 /\ Len(cmsResult.from.ktri_builders) = 1
    /\ envelope.recipient_infos[1].kind = "ktri"

InitAttr ==
    /\ lookup = NoLookup
    /\ KeyIdle /\ kem = NoKem /\ dsa = NoDsa /\ CmsIdle /\ AuxIdle

NextAttr == CmsNew \/ CmsAttribute \/ CmsKemRecipient \/ CmsBuild

SpecAttr == InitAttr /\ [][NextAttr]_vars

\* C28: when attribute returns InvalidAttribute, the unprotected attributes
\* of the builder are what they were before the call; in particular they
\* are still absent (None) when no attribute had been added before.
C28_FailedAttributeChangesNothing ==
    (cmsResult.op = "attribute" /\ cmsResult.res = Err("InvalidAttribute")) =>
        builder.unprotected_attributes = cmsResult.from.unprotected_attributes

NotReached(res) == res # Err("NotImplemented") /\ res # Panic

\* C29: every EcDsaManager new returns has exactly one of the curve NID and
\* the pkey Id set, and a digest exactly when the curve NID is set; for
\* every other DsaType new returns NotImplemented.  So key_gen, sign,
\* verify and get_public_key of a manager never come to their
\* NotImplemented branch and never unwrap a digest that is missing.
C29_EcManagerWellFormed ==
    /\ \A t \in (DsaType \cup DsaSkTags) \ Range(EcDsaTags) :
            EcDsaManager_new(t) = Err("NotImplemented")
    /\ (dsa # NoDsa /\ dsa.family = "ec") =>
          /\ dsa.mgr.ok <=> dsa.tag \in Range(EcDsaTags)
          /\ ~dsa.mgr.ok => dsa.mgr = Err("NotImplemented")
          /\ dsa.mgr.ok =>
                /\ (dsa.mgr.val.ec_based_nid = "None") # (dsa.mgr.val.pk_based_id = "None")
                /\ (dsa.mgr.val.digest # "None") <=> (dsa.mgr.val.ec_based_nid # "None")
          /\ NotReached(dsa.keys) /\ NotReached(dsa.sig) /\ NotReached(dsa.ver)
          /\ rerun.op = "get_public_key" =>
                /\ NotReached(rerun.res)
                /\ rerun.res = Ok(dsa.keys.val[1])

C29_Witness ==
    /\ dsa # NoDsa /\ dsa.family = "ec" /\ dsa.tag = "Ed25519"
    /\ dsa.stage = "verified" /\ dsa.ver.ok
    /\ rerun.op = "get_public_key"

\* C30: what MlDsaManager::sign and verify return does not depend on ctx:
\* a signature made by sign(sk, m, c1) is what sign makes under any other
\* context, and verify(pk, m, sig, c2) accepts it for every c2, the empty
\* context being used whatever the caller passes.
C30_CtxIgnored ==
    rerun.op = "other_ctx" =>
        /\ rerun.res.sig = dsa.sig
        /\ rerun.res.ver = Ok(TRUE)
        /\ dsa.sig.val.body.params = MlDsaParams(EmptyCtx)

C30_Witness ==
    /\ rerun.op = "other_ctx"
    /\ rerun.res.ctx # dsa.ctx
    /\ rerun.res.ver = Ok(TRUE)

====
